---- MODULE Spec2Model ----
(***************************************************************************)
(* The agent execution loop of the QA tester: runQualityAnalysis of        *)
(* src/src/server/services/qualityAnalysis.ts with the helpers it calls    *)
(* (generateNextStep, clickWithRetry, findAlternativeSelector, ...).       *)
(*                                                                         *)
(* One run is one state machine.  pc is the await the run is suspended at; *)
(* the code between two awaits runs without interruption (one JavaScript   *)
(* thread), so it is one action.  The page's event callbacks (console,     *)
(* pageerror, requestfailed) are separate actions enabled only while the   *)
(* run is suspended at an await.                                           *)
(*                                                                         *)
(* The other entry points are machines of their own, each with its own     *)
(* specification: executeWebTask of src/unnamed/part_000 (SpecWeb), the    *)
(* router's runQualityAnalysis of api/routers/qa_analysis.ts (SpecRtr),    *)
(* clickWithRetry await by await (FairSpecClick), findAlternativeSelector  *)
(* probe by probe (SpecAlt), generateNextStep as a function (SpecGen) and  *)
(* the HTTP handler of src/unnamed/part_003 (SpecHandler).                 *)
(***************************************************************************)
EXTENDS Integers, Sequences, FiniteSets, TLC

\* ------------------------------------------------------------------ bounds
\* The number of page events (console / pageerror / requestfailed) one run
\* may receive.
MaxEvents == 2

\* ------------------------------------------------------- program constants
maxSteps == 15
\* actionAttempts[actionKey] >= 3 : the repetition cap
RepetitionCap == 3
\* clickWithRetry(page, selector, maxAttempts = 3)
maxAttempts == 3

\* --------------------------------------------------------------- proposals
\* An ActionProposal as the loop reads it: nextStep.action and the fields of
\* nextStep.params the dispatch looks at.  "" is a missing field.
Proposal(a, s, u, t, v) ==
    [action |-> a, selector |-> s, url |-> u, text |-> t, value |-> v]

\* No proposal in scope (outside the body of an iteration).
NoStep == Proposal("<none>", "", "", "", "")
\* parseJson of the text "null" (any falsy JSON value): !nextStep is true.
NullStep == Proposal("<null>", "", "", "", "")

\* generateNextStep's default, returned from its catch block.
DefaultStep == Proposal("SUMMARIZE", "", "", "", "")

\* Strings whose text holds "//": absolute http(s) URLs.
HasSlashes(s) == s \in {"http://a", "http://b"}

\* Whether JSON.stringify-like text of proposal p holds "//".
ContainsSlashes(p) ==
    HasSlashes(p.url) \/ HasSlashes(p.selector) \/ HasSlashes(p.text) \/ HasSlashes(p.value)

\* ---------------------------------------------------------- model replies
\* The text of a model reply, as the sequence of its segments:
\*   "fenceJson"  the opening  ```json
\*   "fence"      a bare       ```
\*   "json"       the JSON text of proposal p, on one line
\*   "null"       the JSON text  null
\*   "comment"    a trailing  // ...  up to the end of its line
\*   "prose"      text that is not JSON
\*   "broken"     a JSON text cut short (only produced by cleaning)
Seg(t, p) == [t |-> t, p |-> p]

\* .replace(/^```json\s*/, '')
StripFenceOpen(segs) ==
    IF Len(segs) > 0 /\ segs[1].t = "fenceJson" THEN Tail(segs) ELSE segs

\* .replace(/\s*```$/, '')
StripFenceClose(segs) ==
    IF Len(segs) > 0 /\ segs[Len(segs)].t = "fence"
    THEN SubSeq(segs, 1, Len(segs) - 1) ELSE segs

\* .replace(/\/\/.*$/gm, ''): every "//" and what follows it on its line goes.
\* A comment segment disappears; a JSON text that holds "//" is cut there.
CutSeg(seg) ==
    IF seg.t = "json" /\ ContainsSlashes(seg.p) THEN Seg("broken", NoStep) ELSE seg

StripComments(segs) ==
    LET cut == [i \in 1..Len(segs) |-> CutSeg(segs[i])]
    IN  SelectSeq(cut, LAMBDA seg : seg.t # "comment")

cleanedContent(content) == StripComments(StripFenceClose(StripFenceOpen(content)))

\* parseJson(text): the text must be exactly one JSON value.
ParseOk(segs) == Len(segs) = 1 /\ segs[1].t \in {"json", "null"}
parseJson(segs) == IF segs[1].t = "null" THEN NullStep ELSE segs[1].p

\* The outcome of openai.chat.completions.create as generateNextStep reads it:
\* kind "throws" (the call rejects), "nochoice" (no choices[0].message),
\* "empty" (no content) or "content" (a text, in content).
Reply(kind, content) == [kind |-> kind, content |-> content]

\* An exception raised inside a try block, carried in place of a proposal.
Exc(kind) == Proposal("<throw>", "", "", kind, "")
IsExc(p) == p.action = "<throw>"

\* The try block of generateNextStep (services variant): its value, or the
\* exception it raises.  pageOk: page.evaluate(outerHTML) resolved.
generateNextStepTry(pageOk, reply) ==
    IF ~pageOk THEN Exc("page")
    ELSE IF reply.kind = "throws" THEN Exc("api")
    ELSE IF reply.kind = "nochoice" THEN Exc("structure")
    ELSE IF reply.kind = "empty" THEN Exc("empty")
    ELSE IF ParseOk(cleanedContent(reply.content))
         THEN parseJson(cleanedContent(reply.content))
         ELSE Exc("JSONError")

\* A catch block that handles the JSONError alone and rethrows the rest.
CatchJsonErrorOnly(r) ==
    IF IsExc(r) /\ r.text = "JSONError" THEN DefaultStep ELSE r

\* The catch block of generateNextStep: every exception becomes the default.
generateNextStepCatch(r) == IF IsExc(r) THEN DefaultStep ELSE r

generateNextStep(pageOk, reply) == generateNextStepCatch(generateNextStepTry(pageOk, reply))

\* generateNextStep of the router variant (routers/qa_analysis.ts): JSON.parse
\* of the raw text, then of the text from the first "{" to the last "}".
IsObj(seg) == seg.t = "json"
jsonMatch(segs) ==
    LET idx == {i \in 1..Len(segs) : IsObj(segs[i])}
    IN  IF idx = {} THEN <<>>
        ELSE SubSeq(segs, CHOOSE i \in idx : \A j \in idx : i <= j,
                          CHOOSE i \in idx : \A j \in idx : i >= j)

generateNextStepRouterTry(reply) ==
    IF reply.kind = "throws" THEN Exc("api")
    ELSE IF reply.kind = "nochoice" THEN Exc("structure")
    ELSE IF reply.kind = "empty" THEN Exc("empty")
    ELSE IF ParseOk(reply.content) THEN parseJson(reply.content)
    ELSE IF ParseOk(jsonMatch(reply.content)) THEN parseJson(jsonMatch(reply.content))
    ELSE Exc("Unable to parse response as JSON")

\* The router variant's catch block: "If all else fails, return a default step".
generateNextStepRouterCatch(r) == IF IsExc(r) THEN DefaultStep ELSE r

generateNextStepRouter(reply) ==
    generateNextStepRouterCatch(generateNextStepRouterTry(reply))

\* ------------------------------------------------------------- transcript
\* The transcript string `result`.  Every append is one entry.  The entries
\* of the iteration in progress are kept in order (cur); of the iterations
\* before it the transcript keeps how many "Step n:" entries (steps) and how
\* many entries the pageerror callback wrote (cb) it holds.
EmptyResult == [steps |-> 0, cb |-> 0, cur |-> <<>>]
Fixed(text) == [steps |-> 0, cb |-> 0, cur |-> << <<text>> >>]
Log(res, entry) == [res EXCEPT !.cur = Append(@, entry)]
LogStep(res, p) ==
    [res EXCEPT !.steps = @ + 1, !.cur = Append(@, <<"Step", p.action, p.selector>>)]
\* The callback assigning its entry to the transcript in place of appending it.
LogCallbackAssigned(res, entry) ==
    [res EXCEPT !.cb = @ + 1, !.cur = <<entry>>]
LogCallback(res, entry) ==
    [res EXCEPT !.cb = @ + 1, !.cur = Append(@, entry)]
Holds(res, entry) == \E i \in 1..Len(res.cur) : res.cur[i] = entry

\* ---------------------------------------------------------------- inputs
VideoSelectors == {"#video-title", "a[title]"}

\* findAlternativeSelector's fixed list, in its order.
alternatives == <<
    "#video-title", ".ytd-video-renderer", "a.ytd-video-renderer",
    "#contents ytd-video-renderer", "ytd-video-renderer #video-title",
    "ytd-video-renderer .ytd-video-renderer", "a.ytd-video-renderer h3",
    "#contents .ytd-video-renderer h3", "a[href^=\"/watch\"]", "a[title]" >>

\* findAlternativeSelector(page, originalSelector): the first listed selector
\* that page.$ finds; present is the set of selectors the page matches. "" is
\* null.
findAlternativeSelector(present) ==
    LET idx == {i \in 1..Len(alternatives) : alternatives[i] \in present}
    IN  IF idx = {} THEN ""
        ELSE alternatives[CHOOSE i \in idx : \A j \in idx : i <= j]

\* The pages a fallback search may meet.
PagePresentSets == SUBSET {"#video-title", "a[href^=\"/watch\"]", "a[title]"}

\* The proposals the model may return in one run (its repertoire), and the
\* page events that may occur in it.  A run draws one scenario.
Scenario(m, f, n, k) == [menu |-> m, flaky |-> f, events |-> n, kinds |-> k]
Scenarios == {
    Scenario({Proposal("WAIT", "", "", "", ""), Proposal("SCREENSHOT", "", "", "", ""),
              Proposal("CLICK", "s1", "", "", "")}, FALSE, 0, {}),
    Scenario({Proposal("CLICK", "#video-title", "", "", ""), Proposal("TYPE", "s1", "", "t", ""),
              Proposal("CLICK", "", "", "", "")}, FALSE, 0, {}),
    Scenario({Proposal("NAVIGATE", "", "about:blank", "", ""), Proposal("NAVIGATE", "", "http://a", "", ""),
              Proposal("NONE", "", "", "", ""), Proposal("NAVIGATE", "", "", "", "")}, FALSE, 0, {}),
    Scenario({Proposal("EXTRACT_LINKS", "", "", "", ""), Proposal("SCROLL", "", "", "", ""),
              Proposal("HIGHLIGHT", "s1", "", "", "")}, FALSE, 0, {}),
    Scenario({Proposal("SELECT", "s1", "", "", "v"), Proposal("TYPE", "s1", "", "", ""),
              Proposal("SELECT", "s1", "", "", ""), Proposal("SUMMARIZE", "", "", "", "")},
             FALSE, 0, {}),
    Scenario({Proposal("TYPE", "s1", "", "t", "")}, TRUE, 0, {}),
    Scenario({Proposal("CLICK", "s1", "", "", "")}, TRUE, 0, {}),
    Scenario({Proposal("NAVIGATE", "", "about:blank", "", "")}, TRUE, 0, {}),
    Scenario({Proposal("SCREENSHOT", "", "", "", "")}, TRUE, 0, {}),
    Scenario({Proposal("SELECT", "s1", "", "", "v")}, TRUE, 0, {}),
    Scenario({Proposal("SCREENSHOT", "", "", "", ""), Proposal("SCREENSHOT", "s1", "", "", "")},
             FALSE, 0, {}),
    Scenario({Proposal("SCREENSHOT", "", "", "", "")}, FALSE, MaxEvents, {"PageReact", "Console"}),
    Scenario({Proposal("SUMMARIZE", "", "", "", "")}, FALSE, MaxEvents, {"NetRefused", "ConsolePolicy"}),
    Scenario({}, TRUE, MaxEvents, {"Page", "Net", "NetAborted", "ConsoleLog"})
}
AllProposals == UNION {sc.menu : sc \in Scenarios} \cup {DefaultStep}

J(p) == Seg("json", p)
Contents(m) ==
    {<<Seg("prose", NoStep)>>, <<Seg("null", NoStep)>>}
    \cup UNION {{ <<J(p)>>,
                  <<Seg("fenceJson", NoStep), J(p), Seg("fence", NoStep)>>,
                  <<J(p), Seg("comment", NoStep)>>,
                  <<Seg("prose", NoStep), J(p)>> } : p \in m}
\* The replies a run may get.  In a run whose calls fail (f), also the
\* failures of the model call and texts that are not one JSON value.
Replies(m, f) ==
    {Reply("content", c) : c \in UNION {{ <<J(p)>>,
                  <<Seg("fenceJson", NoStep), J(p), Seg("fence", NoStep)>>,
                  <<J(p), Seg("comment", NoStep)>> } : p \in m}}
    \cup IF f THEN {Reply("throws", <<>>), Reply("nochoice", <<>>), Reply("empty", <<>>)}
                   \cup {Reply("content", c) : c \in Contents(m)}
         ELSE {}

\* const actionKey = `${nextStep.action}_${nextStep.params?.selector || ''}`
ActionKey(p) == <<p.action, p.selector>>
Keys == {ActionKey(p) : p \in AllProposals}

\* The descriptor a completed step pushes onto completedActions.
Descriptor(p) ==
    IF p.action \in {"CLICK", "TYPE", "HIGHLIGHT", "SELECT"}
    THEN <<p.action, p.selector>> ELSE <<p.action, "">>
Descriptors == {Descriptor(p) : p \in AllProposals} \cup {<<"NAVIGATE", "">>}

\* ------------------------------------------------------------------ state
VARIABLES
    menu, flaky, kinds,           \* the run's scenario: the model's repertoire, whether
                                  \* calls fail in it, the kinds of its page events
    eventsLeft,                   \* the page events still to come
    pc,                           \* the await the run is suspended at
    op,                           \* the browser / model call in flight ("none": none)
    browser,                      \* "undefined" or "launched"
    closeCalls,                   \* how many times browser.close() was invoked
    pageUrl,                      \* page.url()
    result, currentState, screenshots, completedActions, videoClicked,
    criticalErrorOccurred, errors, actionAttempts, pageErrorOccurred,
    taskCompleted, stepCount,
    nextStep,                     \* the proposal of the iteration in progress
    attempt, altSel,              \* clickWithRetry's attempt; the fallback selector in use
    ret,                          \* the value of the return statement reached
    outcome,                      \* what the caller received
    proposals,                    \* how many times generateNextStep was called
    criticalInLoop,               \* a critical signal arrived while the loop ran
    clickReturned,                \* what clickWithRetry returned in this iteration
                                  \* ("none": it has not returned)
    genIn, genOut                 \* generateNextStep applied to an input of its own

\* The other entry points of the repository, each a machine of its own.
VARIABLES
    webEnv,                       \* executeWebTask: the model's repertoire, whether calls fail
    web,                          \* executeWebTask: the locals of each run
    screenshotPng,                \* the file 'screenshot.png': "absent", or the run whose
                                  \* page it shows
    rtrEnv,                       \* the router's runQualityAnalysis: its scenario
    rtr,                          \* the router's runQualityAnalysis: its locals
    clk,                          \* clickWithRetry called on its own
    fas,                          \* findAlternativeSelector called on its own
    hnd                           \* the HTTP handler: the request served, its response

webVars == <<webEnv, web, screenshotPng>>
rtrVars == <<rtrEnv, rtr>>
otherVars == <<webVars, rtrVars, clk, fas, hnd>>

envVars == <<menu, flaky, kinds>>
genVars == <<genIn, genOut>>
ghostVars == <<proposals, criticalInLoop, clickReturned>>
cbVars == <<criticalErrorOccurred, errors, pageErrorOccurred, eventsLeft>>
finVars == <<closeCalls, ret, outcome>>
loopData == <<result, currentState, screenshots, completedActions, videoClicked,
              actionAttempts, taskCompleted, stepCount, pageUrl>>
stepVars == <<nextStep, attempt, altSel>>
runVars == <<menu, flaky, kinds, eventsLeft, pc, op, browser, closeCalls, pageUrl, result,
             currentState, screenshots, completedActions, videoClicked,
             criticalErrorOccurred, errors, actionAttempts, pageErrorOccurred,
             taskCompleted, stepCount, nextStep, attempt, altSel, ret, outcome,
             proposals, criticalInLoop, clickReturned, genIn, genOut>>
vars == <<runVars, otherVars>>

\* What the caller receives: a returned object (shots = -1, err = "": the
\* field is absent), or the rejection of the call.
Outcome(kind, res, shots, err) ==
    [kind |-> kind, result |-> res, screenshots |-> shots, error |-> err]
NoOutcome == Outcome("none", EmptyResult, -1, "")
ThrownOutcome == Outcome("thrown", EmptyResult, -1, "")

GenIdle == [pageOk |-> TRUE, reply |-> Reply("throws", <<>>)]
GenNone == [svc |-> NoStep, router |-> NoStep]

StateOf(url, last, comp) == [url |-> url, last |-> last, completed |-> comp]

\* The state before runQualityAnalysis runs its first statement.
InitRun ==
    /\ browser = "undefined"
    /\ closeCalls = 0
    /\ pageUrl = "about:start"
    /\ result = EmptyResult
    /\ currentState = StateOf("u0", "", [d \in Descriptors |-> 0])
    /\ screenshots = 0
    /\ completedActions = [d \in Descriptors |-> 0]
    /\ videoClicked = FALSE
    /\ criticalErrorOccurred = FALSE
    /\ errors = <<>>
    /\ actionAttempts = [k \in Keys |-> 0]
    /\ pageErrorOccurred = FALSE
    /\ taskCompleted = FALSE
    /\ stepCount = 0
    /\ nextStep = NoStep
    /\ attempt = 0
    /\ altSel = ""
    /\ ret = NoOutcome
    /\ outcome = NoOutcome
    /\ proposals = 0
    /\ criticalInLoop = FALSE
    /\ clickReturned = "none"

\* ------------------------------------------- the other machines, before they run
\* Two tasks submitted to executeWebTask at the same time.
Runs == {"a", "b"}

\* A next-step proposal of executeWebTask: thought "absent" is a reply with no
\* thought field.
WebStep(thought, action, param) == [thought |-> thought, action |-> action, param |-> param]
WebNoStep == WebStep("", "", "")

\* The locals of one run of executeWebTask.  result is the set of the kinds
\* of line appended to the transcript; content is the kind of the last model
\* reply; attempt and calls belong to generateInstructions; proposals counts
\* the calls of generateNextStep.
WebRun(p) ==
    [pc |-> p, browser |-> "undefined", result |-> {}, currentUrl |-> "",
     taskCompleted |-> FALSE, stepCount |-> 0, nextStep |-> WebNoStep,
     content |-> "none", attempt |-> 0, calls |-> 0, proposals |-> 0,
     outcome |-> "none"]

WebIdle ==
    /\ webEnv = [menu |-> {}, flaky |-> FALSE]
    /\ web = [r \in Runs |-> WebRun("idle")]
    /\ screenshotPng = "absent"

\* The proposals of the router's runs and the signatures counted in them.
RtrProposals ==
    {Proposal("CLICK", "#video-title", "", "", ""), Proposal("WAIT", "", "", "", ""),
     Proposal("SUMMARIZE", "", "", "", ""), Proposal("NAVIGATE", "", "about:blank", "", ""),
     Proposal("DANCE", "", "", "", ""), Proposal("TYPE", "s1", "", "t", ""),
     Proposal("SCREENSHOT", "", "", "", ""), DefaultStep}
RtrKeys == {ActionKey(p) : p \in RtrProposals}

\* The locals of the router's runQualityAnalysis.  result is the set of the
\* kinds of line appended; errors holds the kinds of the events pushed;
\* completedActions is the set of the list's entries; status is the status
\* of the initial navigation's response (0: no response yet).
RtrRun(p, n) ==
    [pc |-> p, browser |-> "undefined", closeCalls |-> 0, status |-> 0, result |-> {},
     criticalErrorOccurred |-> FALSE, errors |-> <<>>, taskCompleted |-> FALSE,
     stepCount |-> 0, nextStep |-> NoStep, actionAttempts |-> [k \in RtrKeys |-> 0],
     completedActions |-> {}, videoClicked |-> FALSE, screenshots |-> 0,
     alternativeSelector |-> "", eventsLeft |-> n, proposals |-> 0, ret |-> "none", outcome |-> "none"]

RtrIdle ==
    /\ rtrEnv = [menu |-> {}, flaky |-> FALSE]
    /\ rtr = RtrRun("idle", 0)

\* One call of clickWithRetry(page, selector, m).  waits, clicks, pauses,
\* scrolls and lastClicks count the calls of page.waitForSelector, of
\* page.click inside the loop, of the 1000 ms timer, of the scrolling
\* page.evaluate and of page.click after it; succeeded: a click resolved.
ClickCall(p, m) ==
    [pc |-> p, maxAttempts |-> m, attempt |-> 0, waits |-> 0, clicks |-> 0,
     pauses |-> 0, scrolls |-> 0, lastClicks |-> 0, succeeded |-> FALSE, ret |-> "none"]

ClickIdle == clk = ClickCall("idle", 0)

\* Calls of findAlternativeSelector(page, originalSelector) on one page.
\* idx is the position of the loop in the list, ret the value returned
\* ("pending": none so far, "": null), first the value the first call
\* returned.
AltCall(p, present, original) ==
    [pc |-> p, present |-> present, originalSelector |-> original, idx |-> 1,
     ret |-> "pending", calls |-> 0, first |-> "pending"]

AltIdle == fas = AltCall("idle", {}, "")

\* A request (req.method, req.body) and what the handler has done for it:
\* the status and the Allow header set on res, the responses sent, the runs
\* started; served counts the requests received.
NoBody == [isNull |-> TRUE, url |-> "undefined", task |-> "undefined"]
HandlerCall(p, method, body) ==
    [pc |-> p, method |-> method, body |-> body, statusCode |-> 0, allow |-> FALSE,
     sent |-> 0, runs |-> 0, run |-> "none", served |-> 0]

HandlerIdle == hnd = HandlerCall("idle", "none", NoBody)

OthersIdle == WebIdle /\ RtrIdle /\ ClickIdle /\ AltIdle /\ HandlerIdle

\* The other machines' Init: runQualityAnalysis of the services file is not
\* running.
RunIdle ==
    /\ menu = {}
    /\ flaky = FALSE
    /\ kinds = {}
    /\ eventsLeft = 0
    /\ pc = "idle"
    /\ op = "none"
    /\ InitRun
    /\ genIn = GenIdle
    /\ genOut = GenNone

Init ==
    /\ \E sc \in Scenarios :
          /\ menu = sc.menu
          /\ flaky = sc.flaky
          /\ kinds = sc.kinds
          /\ eventsLeft = sc.events
    /\ pc = "launch"
    /\ op = "launch"
    /\ InitRun
    /\ genIn = GenIdle
    /\ genOut = GenNone
    /\ OthersIdle

\* --------------------------------------------------- return, catch, finally
\* Once a return statement is evaluated the locals of the run are out of
\* scope: the model forgets them (the value returned is kept in ret).
Forget ==
    /\ pageUrl' = "about:start"
    /\ result' = EmptyResult
    /\ currentState' = StateOf("u0", "", [d \in Descriptors |-> 0])
    /\ screenshots' = 0
    /\ completedActions' = [d \in Descriptors |-> 0]
    /\ videoClicked' = FALSE
    /\ criticalErrorOccurred' = FALSE
    /\ errors' = <<>>
    /\ actionAttempts' = [k \in Keys |-> 0]
    /\ pageErrorOccurred' = FALSE
    /\ taskCompleted' = FALSE
    /\ stepCount' = 0
    /\ nextStep' = NoStep
    /\ attempt' = 0
    /\ altSel' = ""
    /\ eventsLeft' = 0

\* The close placed at the end of the try block in place of a finally block:
\* the returns inside the loop and the catch block leave without it.
FinallyAtEndOfTry(o, b) ==
    /\ ret' = o
    /\ Forget
    /\ IF b = "launched" /\ o.error = ""
       THEN /\ pc' = "close"
            /\ op' = "close"
            /\ closeCalls' = closeCalls + 1
            /\ outcome' = outcome
       ELSE /\ pc' = "done"
            /\ op' = "none"
            /\ closeCalls' = closeCalls
            /\ outcome' = o

\* finally { if (browser) await browser.close() }, entered with the value o of
\* the return statement; b is `browser`.
Finally(o, b) ==
    /\ ret' = o
    /\ Forget
    /\ IF b = "launched"
       THEN /\ pc' = "close"
            /\ op' = "close"
            /\ closeCalls' = closeCalls + 1
            /\ outcome' = outcome
       ELSE /\ pc' = "done"
            /\ op' = "none"
            /\ closeCalls' = closeCalls
            /\ outcome' = o

\* catch (error) { return { result: "An error occurred during the analysis",
\*                          error: error.message } }
ErrorOutcome ==
    Outcome("returned", Fixed("An error occurred during the analysis"), -1, "exception")
Catch(b) == Finally(ErrorOutcome, b)

\* await browser.close() settles; the outcome reaches the caller, or close()
\* rejects inside the finally block and the rejection does.
CloseReturns ==
    /\ pc = "close"
    /\ pc' = "done"
    /\ op' = "none"
    /\ \/ outcome' = ret
       \/ outcome' = ThrownOutcome
    /\ UNCHANGED <<envVars, genVars, otherVars, ghostVars, cbVars, browser, closeCalls, ret,
                   loopData, stepVars>>

\* ------------------------------------------------------------ initializing
\* browser = await puppeteer.launch(options)
LaunchReturns ==
    /\ pc = "launch"
    /\ \/ /\ browser' = "launched"
          /\ pc' = "newPage"
          /\ op' = "newPage"
          /\ UNCHANGED <<finVars, cbVars, loopData, stepVars>>
       \/ /\ browser' = browser
          /\ Catch(browser)
    /\ UNCHANGED <<envVars, genVars, otherVars, ghostVars>>

\* const page = await browser.newPage(); then the race is started
NewPageReturns ==
    /\ pc = "newPage"
    /\ \/ /\ pc' = "goto"
          /\ op' = "goto"
          /\ UNCHANGED <<finVars, cbVars, loopData, stepVars>>
       \/ Catch(browser)
    /\ UNCHANGED <<envVars, genVars, otherVars, ghostVars, browser>>

\* Promise.race([sleep, page.goto(url)]) settles: LOAD_FAIL, a response that is
\* not ok (with its status; no response at all reads as status undefined), goto
\* rejects, or an ok response: the locals are initialised, the observers
\* attached and the loop entered.
GotoReturns ==
    /\ pc = "goto"
    /\ \/ Finally(Outcome("returned", Fixed("Navigation failed due to timeout"), 0,
                          "Page load timed out"), browser)
       \/ \E status \in {"HTTP status 404", "HTTP status 500", "HTTP status undefined"} :
            Finally(Outcome("returned", Fixed("Critical error: HTTP status"), 0, status),
                    browser)
       \/ Catch(browser)
       \/ IF pageErrorOccurred
          THEN Finally(Outcome("returned", result, screenshots, "Page error occurred"),
                       browser)
          ELSE /\ pc' = "loopTop"
               /\ op' = "none"
               /\ pageUrl' = "u0"
               /\ UNCHANGED <<finVars, cbVars, stepVars, result, currentState,
                              screenshots, completedActions, videoClicked,
                              actionAttempts, taskCompleted, stepCount>>
    /\ UNCHANGED <<envVars, genVars, otherVars, ghostVars, browser>>

\* ---------------------------------------------------------------- stepping
\* The end of an iteration reached while the step's call is still in flight
\* (the call not awaited).
PostStepNotAwaited(last, res, comp, vc, url) ==
    /\ result' = res
    /\ completedActions' = comp
    /\ videoClicked' = vc
    /\ pageUrl' = url
    /\ currentState' = StateOf(url, last, comp)
    /\ stepCount' = stepCount + 1
    /\ attempt' = 0
    /\ altSel' = ""
    /\ IF vc
       THEN pc' = "videoCheck" /\ op' = "evaluate"
       ELSE pc' = "loopTop" /\ op' = op

\* Lines 467-476: the end of an iteration, with the transcript res, the
\* completedActions comp and the videoClicked vc the step produced.  page.url()
\* is synchronous.  With videoClicked set the run awaits checkIfVideoPlaying.
PostStep(last, res, comp, vc, url) ==
    /\ result' = res
    /\ completedActions' = comp
    /\ videoClicked' = vc
    /\ pageUrl' = url
    /\ currentState' = StateOf(url, last, comp)
    /\ stepCount' = stepCount + 1
    /\ attempt' = 0
    /\ altSel' = ""
    /\ IF vc
       THEN pc' = "videoCheck" /\ op' = "evaluate"
       ELSE pc' = "loopTop" /\ op' = "none"

\* while (!taskCompleted && stepCount < maxSteps), the condition holding and no
\* critical error flagged: the iteration starts with await extractPageContent.
LoopContinue ==
    /\ pc = "loopTop"
    /\ ~taskCompleted /\ stepCount < maxSteps
    /\ ~criticalErrorOccurred
    /\ pc' = "extract"
    /\ op' = "evaluate"
    /\ nextStep' = NoStep
    /\ result' = [result EXCEPT !.cur = <<>>]
    /\ clickReturned' = "none"
    /\ UNCHANGED <<envVars, genVars, otherVars, proposals, criticalInLoop, cbVars, finVars, browser,
                   currentState,
                   screenshots, completedActions, videoClicked, actionAttempts,
                   taskCompleted, stepCount, pageUrl, attempt, altSel>>

\* if (criticalErrorOccurred) { result += ...; return {..., error: "Critical error"} }
LoopCritical ==
    /\ pc = "loopTop"
    /\ ~taskCompleted /\ stepCount < maxSteps
    /\ criticalErrorOccurred
    /\ Finally(Outcome("returned",
                       Log(result, <<"Critical error occurred. Stopping further actions.">>),
                       screenshots, "Critical error"), browser)
    /\ UNCHANGED <<envVars, genVars, otherVars, ghostVars, browser>>

\* The loop condition fails.
LoopExit ==
    /\ pc = "loopTop"
    /\ ~(~taskCompleted /\ stepCount < maxSteps)
    /\ pc' = "afterLoop"
    /\ nextStep' = NoStep
    /\ UNCHANGED <<envVars, genVars, otherVars, ghostVars, cbVars, finVars, browser, loopData, op,
                   attempt, altSel>>

\* await extractPageContent(page) settles; generateNextStep is called and
\* awaits page.evaluate(outerHTML).
ExtractReturns ==
    /\ pc = "extract"
    /\ \/ /\ pc' = "snapshot"
          /\ op' = "evaluate"
          /\ proposals' = proposals + 1
          /\ UNCHANGED <<finVars, cbVars, loopData, stepVars>>
       \/ /\ Catch(browser)
          /\ UNCHANGED proposals
    /\ UNCHANGED <<envVars, genVars, otherVars, criticalInLoop, clickReturned, browser>>

\* The NAVIGATE case without its !completedActions.includes('NAVIGATE').
NeedsCallNoGuard(p, comp) ==
    CASE p.action = "NAVIGATE" -> p.url # ""
      [] p.action = "CLICK" -> p.selector # ""
      [] p.action = "TYPE" -> p.selector # "" /\ p.text # ""
      [] p.action \in {"WAIT", "SCREENSHOT", "EXTRACT_LINKS", "SUMMARIZE", "SCROLL"} -> TRUE
      [] p.action = "HIGHLIGHT" -> p.selector # ""
      [] p.action = "SELECT" -> p.selector # "" /\ p.value # ""
      [] OTHER -> FALSE

\* Whether the dispatch of p makes a browser / model call, and which.
NeedsCall(p, comp) ==
    CASE p.action = "NAVIGATE" -> p.url # "" /\ comp[<<"NAVIGATE", "">>] = 0
      [] p.action = "CLICK" -> p.selector # ""
      [] p.action = "TYPE" -> p.selector # "" /\ p.text # ""
      [] p.action \in {"WAIT", "SCREENSHOT", "EXTRACT_LINKS", "SUMMARIZE", "SCROLL"} -> TRUE
      [] p.action = "HIGHLIGHT" -> p.selector # ""
      [] p.action = "SELECT" -> p.selector # "" /\ p.value # ""
      [] OTHER -> FALSE
KnownActions == {"NAVIGATE", "CLICK", "TYPE", "WAIT", "SCREENSHOT", "EXTRACT_LINKS",
                 "SUMMARIZE", "SCROLL", "HIGHLIGHT", "SELECT"}
OpOf(p) ==
    CASE p.action = "NAVIGATE" -> "goto"
      [] p.action = "CLICK" -> "click"
      [] p.action = "TYPE" -> "type"
      [] p.action = "WAIT" -> "wait"
      [] p.action = "SCREENSHOT" -> "screenshot"
      [] p.action = "EXTRACT_LINKS" -> "extractLinks"
      [] p.action = "SUMMARIZE" -> "summarize"
      [] p.action = "SCROLL" -> "scroll"
      [] p.action = "HIGHLIGHT" -> "highlight"
      [] p.action = "SELECT" -> "select"
      [] OTHER -> "none"
\* The browser actions among the calls.
BrowserActions == {"goto", "click", "type", "select", "scroll", "highlight", "screenshot"}

\* The guard with > in place of >=.
RepeatedOffByOne(p) == actionAttempts[ActionKey(p)] > RepetitionCap

\* if (actionAttempts[actionKey] && actionAttempts[actionKey] >= 3)
Repeated(p) == actionAttempts[ActionKey(p)] >= RepetitionCap

\* A count kept per action kind: every signature of the kind is incremented.
CountedPerKind(p) ==
    [k \in Keys |-> IF k[1] = p.action THEN actionAttempts[k] + 1 ELSE actionAttempts[k]]

\* actionAttempts[actionKey] = (actionAttempts[actionKey] || 0) + 1 (line 386)
Counted(p) == [actionAttempts EXCEPT ![ActionKey(p)] = @ + 1]

\* A skip that forgets stepCount++ before continue.
SkipStepNoCount(p, res) ==
    /\ result' = Log(res, <<"Skipping repeated action", p.action, p.selector>>)
    /\ pc' = "loopTop"
    /\ op' = "none"
    /\ nextStep' = NoStep
    /\ UNCHANGED <<finVars, cbVars, currentState, screenshots, completedActions,
                   videoClicked, actionAttempts, taskCompleted, stepCount, pageUrl,
                   attempt, altSel>>

\* A skip placed after the attempt is counted (line 386 moved above the guard).
SkipStepCounted(p, res) ==
    /\ result' = Log(res, <<"Skipping repeated action", p.action, p.selector>>)
    /\ actionAttempts' = [actionAttempts EXCEPT ![ActionKey(p)] = @ + 1]
    /\ stepCount' = stepCount + 1
    /\ pc' = "loopTop"
    /\ op' = "none"
    /\ nextStep' = NoStep
    /\ UNCHANGED <<finVars, cbVars, currentState, screenshots, completedActions,
                   videoClicked, taskCompleted, pageUrl, attempt, altSel>>

\* Lines 381-383: the repeated proposal is logged and skipped.
SkipStep(p, res) ==
    /\ result' = Log(res, <<"Skipping repeated action", p.action, p.selector>>)
    /\ stepCount' = stepCount + 1
    /\ pc' = "loopTop"
    /\ op' = "none"
    /\ nextStep' = NoStep
    /\ UNCHANGED <<finVars, cbVars, currentState, screenshots, completedActions,
                   videoClicked, actionAttempts, taskCompleted, pageUrl, attempt, altSel>>

\* Lines 386-451 up to the first await: the attempt is counted and the action
\* dispatched; a case that makes no call completes the step at once.
Dispatch(p, res) ==
    /\ actionAttempts' = Counted(p)
    /\ nextStep' = p
    /\ UNCHANGED <<finVars, cbVars, screenshots, taskCompleted>>
    /\ IF NeedsCall(p, completedActions)
       THEN /\ pc' = IF p.action = "CLICK" THEN "click" ELSE "act"
            /\ op' = OpOf(p)
            /\ result' = res
            /\ attempt' = 0
            /\ altSel' = ""
            /\ UNCHANGED <<currentState, completedActions, videoClicked, stepCount, pageUrl>>
       ELSE PostStep(p.action,
                     Log(IF p.action \in KnownActions THEN res
                         ELSE Log(res, <<"Unknown action", p.action>>),
                         <<"Step completed successfully">>),
                     completedActions, videoClicked, pageUrl)

\* if (!nextStep) { result += ...; break }
NoProposal ==
    /\ result' = Log(result, <<"Failed to generate next step">>)
    /\ pc' = "afterLoop"
    /\ op' = "none"
    /\ nextStep' = NoStep
    /\ UNCHANGED <<finVars, cbVars, currentState, screenshots, completedActions,
                   videoClicked, actionAttempts, taskCompleted, stepCount, pageUrl,
                   attempt, altSel>>

\* Lines 373-386 with the value p of `await generateNextStep(...)`.
Guard(p) ==
    IF IsExc(p) THEN Catch(browser)
    ELSE IF p = NullStep THEN NoProposal
    ELSE IF Repeated(p) THEN SkipStep(p, LogStep(result, p))
    ELSE Dispatch(p, LogStep(result, p))

\* generateNextStep's page.evaluate settles: the model is called, or (rejected)
\* generateNextStep returns from its catch block.
SnapshotReturns ==
    /\ pc = "snapshot"
    /\ \/ /\ pc' = "llm"
          /\ op' = "llm"
          /\ UNCHANGED <<finVars, cbVars, loopData, stepVars>>
       \/ /\ flaky
          /\ Guard(generateNextStep(FALSE, Reply("throws", <<>>)))
    /\ UNCHANGED <<envVars, genVars, otherVars, ghostVars, browser>>

\* openai.chat.completions.create settles; generateNextStep returns.
LlmReturns ==
    /\ pc = "llm"
    /\ \E reply \in Replies(menu, flaky) : Guard(generateNextStep(TRUE, reply))
    /\ UNCHANGED <<envVars, genVars, otherVars, ghostVars, browser>>

\* The calls of the dispatch that can reject (WAIT's timer cannot).
CanThrow(o) == o # "wait"

\* Lines 452-465 up to the first await: the step's exception is logged; for
\* CLICK and TYPE the fallback search starts, otherwise the iteration ends.
StepCatch(url) ==
    LET res == Log(result, <<"Error executing step">>)
    IN  IF nextStep.action \in {"CLICK", "TYPE"}
        THEN /\ result' = res
             /\ pc' = "findAlt"
             /\ op' = "query"
             /\ pageUrl' = url
             /\ UNCHANGED <<currentState, completedActions, videoClicked, stepCount,
                            attempt, altSel>>
        ELSE PostStep(nextStep.action, res, completedActions, videoClicked, url)

\* The awaited call of a dispatched case other than CLICK settles.
ActReturns ==
    /\ pc = "act"
    /\ LET p == nextStep
           done == <<"Step completed successfully">>
           comp == [completedActions EXCEPT ![Descriptor(p)] = @ + 1]
       IN  \/ /\ p.action = "NAVIGATE"
              /\ PostStep(p.action, Log(result, done), comp, videoClicked, p.url)
              /\ UNCHANGED <<screenshots, taskCompleted>>
           \/ /\ p.action \in {"TYPE", "WAIT", "SCROLL", "HIGHLIGHT", "SELECT"}
              /\ PostStep(p.action, Log(result, done), comp, videoClicked, pageUrl)
              /\ UNCHANGED <<screenshots, taskCompleted>>
           \/ /\ p.action = "SCREENSHOT"
              /\ screenshots' = screenshots + 1
              /\ PostStep(p.action, Log(result, done), comp, videoClicked, pageUrl)
              /\ UNCHANGED taskCompleted
           \/ /\ p.action = "EXTRACT_LINKS"
              /\ PostStep(p.action, Log(Log(result, <<"Links">>), done), comp, videoClicked,
                          pageUrl)
              /\ UNCHANGED <<screenshots, taskCompleted>>
           \/ /\ p.action = "SUMMARIZE"
              /\ taskCompleted' = TRUE
              /\ PostStep(p.action, Log(Log(result, <<"Summary">>), done), comp,
                          videoClicked, pageUrl)
              /\ UNCHANGED screenshots
           \/ /\ flaky /\ CanThrow(op)
              /\ \E url \in IF p.action = "NAVIGATE" THEN {pageUrl, p.url} ELSE {pageUrl} :
                    StepCatch(url)
              /\ UNCHANGED <<screenshots, taskCompleted>>
    /\ UNCHANGED <<envVars, genVars, otherVars, ghostVars, cbVars, finVars, browser, actionAttempts,
                   nextStep>>

\* clickWithRetry returned (its value is not read by the caller): lines 400-403
\* and 451 for the proposal's selector, lines 459-462 for a fallback selector.
ClickDone ==
    IF altSel = ""
    THEN PostStep(nextStep.action, Log(result, <<"Step completed successfully">>),
                  [completedActions EXCEPT ![Descriptor(nextStep)] = @ + 1],
                  videoClicked \/ nextStep.selector \in VideoSelectors, pageUrl)
    ELSE PostStep(nextStep.action,
                  Log(result, <<"Step completed successfully with alternative selector">>),
                  completedActions,
                  videoClicked \/ altSel \in VideoSelectors, pageUrl)

\* clickWithRetry, one pass of its loop: waitForSelector and click settle.
ClickAttemptReturns ==
    /\ pc = "click"
    /\ \/ /\ ClickDone                                  \* return true
          /\ clickReturned' = "true"
       \/ /\ attempt < maxAttempts - 1                  \* caught; sleep; next attempt
          /\ attempt' = attempt + 1
          /\ UNCHANGED <<pc, op, result, currentState, completedActions, videoClicked,
                         stepCount, pageUrl, altSel, clickReturned>>
       \/ /\ attempt = maxAttempts - 1                  \* caught; scroll into view
          /\ pc' = "clickScroll"
          /\ UNCHANGED <<op, result, currentState, completedActions, videoClicked,
                         stepCount, pageUrl, attempt, altSel, clickReturned>>
    /\ UNCHANGED <<envVars, genVars, otherVars, proposals, criticalInLoop, cbVars, finVars, browser,
                   screenshots, actionAttempts, taskCompleted, nextStep>>

\* clickWithRetry's last resort settles: return true, or (caught) return false.
ClickScrollReturns ==
    /\ pc = "clickScroll"
    /\ ClickDone
    /\ clickReturned' \in {"true", "false"}
    /\ UNCHANGED <<envVars, genVars, otherVars, proposals, criticalInLoop, cbVars, finVars, browser,
                   screenshots, actionAttempts, taskCompleted, nextStep>>

\* await findAlternativeSelector settles (lines 455-458).
FindAltReturns ==
    /\ pc = "findAlt"
    /\ \/ \E present \in PagePresentSets :
            LET alt == findAlternativeSelector(present)
            IN  /\ IF alt = ""
                   THEN PostStep(nextStep.action, result, completedActions, videoClicked,
                                 pageUrl)
                   ELSE /\ result' = Log(result, <<"Trying alternative selector", alt>>)
                        /\ altSel' = alt
                        /\ attempt' = 0
                        /\ pc' = IF nextStep.action = "CLICK" THEN "click" ELSE "altType"
                        /\ op' = IF nextStep.action = "CLICK" THEN "click" ELSE "type"
                        /\ UNCHANGED <<currentState, completedActions, videoClicked,
                                       stepCount, pageUrl>>
                /\ UNCHANGED <<finVars, cbVars, screenshots, actionAttempts, taskCompleted,
                               nextStep>>
       \/ Catch(browser)                                \* page.$ rejected
    /\ UNCHANGED <<envVars, genVars, otherVars, ghostVars, browser>>

\* await typeText(page, alternativeSelector, text) settles (lines 458-459).
AltTypeReturns ==
    /\ pc = "altType"
    /\ \/ /\ PostStep(nextStep.action,
                      Log(result, <<"Step completed successfully with alternative selector">>),
                      completedActions, videoClicked, pageUrl)
          /\ UNCHANGED <<finVars, cbVars, screenshots, actionAttempts, taskCompleted,
                         nextStep>>
       \/ Catch(browser)                                \* rejected inside the catch block
    /\ UNCHANGED <<envVars, genVars, otherVars, ghostVars, browser>>

\* await checkIfVideoPlaying(page) settles (lines 470-476).
VideoCheckReturns ==
    /\ pc = "videoCheck"
    /\ \/ /\ \/ /\ taskCompleted' = TRUE
                /\ result' = Log(result, <<"Task completed: Video is playing.">>)
             \/ UNCHANGED <<taskCompleted, result>>
          /\ pc' = "loopTop"
          /\ op' = "none"
          /\ UNCHANGED <<finVars, cbVars, currentState, screenshots, completedActions,
                         videoClicked, actionAttempts, stepCount, pageUrl, stepVars>>
       \/ Catch(browser)
    /\ UNCHANGED <<envVars, genVars, otherVars, ghostVars, browser>>

\* ------------------------------------------------------------ final report
\* errors.filter(e => !e.includes("Permissions policy violation: ..."))
criticalErrors(errs) == SelectSeq(errs, LAMBDA e : e # "ConsolePolicy")

\* Lines 479-492 up to the first await.
FinalReport ==
    /\ pc = "afterLoop"
    /\ LET res == IF ~taskCompleted
                  THEN Log(result, <<"Maximum steps reached without completing the task.">>)
                  ELSE result
       IN  IF Len(criticalErrors(errors)) > 0
           THEN /\ result' = res
                /\ pc' = "sumErrors"
           ELSE /\ result' = Log(res, <<"No critical errors were detected during the test.">>)
                /\ pc' = "sumTest"
    /\ op' = "llm"
    /\ UNCHANGED <<envVars, genVars, otherVars, ghostVars, cbVars, finVars, browser, currentState,
                   screenshots, completedActions, videoClicked, actionAttempts,
                   taskCompleted, stepCount, pageUrl, stepVars>>

\* await summarizeErrors(criticalErrors) settles.
SumErrorsReturns ==
    /\ pc = "sumErrors"
    /\ \/ /\ result' = Log(result, <<"Important Errors">>)
          /\ pc' = "sumTest"
          /\ op' = "llm"
          /\ UNCHANGED <<finVars, cbVars, currentState, screenshots, completedActions,
                         videoClicked, actionAttempts, taskCompleted, stepCount, pageUrl,
                         stepVars>>
       \/ Catch(browser)
    /\ UNCHANGED <<envVars, genVars, otherVars, ghostVars, browser>>

\* await summarizeTest(task, result) settles; return { result, screenshots }.
SumTestReturns ==
    /\ pc = "sumTest"
    /\ \/ Finally(Outcome("returned", Log(result, <<"Test Summary">>), screenshots, ""),
                  browser)
       \/ Catch(browser)
    /\ UNCHANGED <<envVars, genVars, otherVars, ghostVars, browser>>

\* ------------------------------------------------------------ page events
\* The awaits during which the observers are attached and the run's locals
\* are live; LoopAwaits: those inside the stepping loop.
LoopAwaits == {"extract", "snapshot", "llm", "act", "click", "clickScroll", "findAlt",
               "altType", "videoCheck"}

\* The awaits with the handlers attached, had they been registered before
\* the initial navigation.
AwaitsFromNavigation == LoopAwaits \cup {"sumErrors", "sumTest", "goto"}

\* The awaits at which the handlers are attached: those after lines 328-354.
Awaits == LoopAwaits \cup {"sumErrors", "sumTest"}

\* A page event (console message, exception, failed request) while the
\* initial navigation is awaited (294-297): no handler is registered yet.
OnEventUnobserved ==
    /\ pc = "goto" /\ eventsLeft > 0 /\ kinds # {}
    /\ eventsLeft' = eventsLeft - 1
    /\ UNCHANGED <<envVars, genVars, otherVars, ghostVars, finVars, browser, loopData, stepVars,
                   pc, op, criticalErrorOccurred, errors, pageErrorOccurred>>

\* page.on('console', ...): an error or warning is recorded.
OnConsole ==
    /\ pc \in Awaits /\ eventsLeft > 0
    /\ \E k \in kinds \cap {"Console", "ConsolePolicy", "ConsoleLog"} :
          errors' = IF k = "ConsoleLog" THEN errors ELSE Append(errors, k)
    /\ eventsLeft' = eventsLeft - 1
    /\ UNCHANGED <<envVars, genVars, otherVars, ghostVars, finVars, browser, loopData, stepVars, pc,
                   op, criticalErrorOccurred, pageErrorOccurred>>

\* page.on('pageerror', ...): the message is logged and recorded; a message
\* holding 'React' or 'must be used within' flags a critical error.
OnPageError ==
    /\ pc \in Awaits /\ eventsLeft > 0
    /\ \E k \in kinds \cap {"PageReact", "Page"} :
          /\ result' = LogCallback(result, IF k = "PageReact"
                                           THEN <<"Critical React Error">>
                                           ELSE <<"Page Error">>)
          /\ criticalErrorOccurred' = (criticalErrorOccurred \/ k = "PageReact")
          /\ errors' = Append(errors, k)
          /\ criticalInLoop' = (criticalInLoop \/ (k = "PageReact" /\ pc \in LoopAwaits))
    /\ pageErrorOccurred' = TRUE
    /\ eventsLeft' = eventsLeft - 1
    /\ UNCHANGED <<envVars, genVars, otherVars, proposals, clickReturned, finVars, browser, currentState,
                   screenshots, completedActions, videoClicked, actionAttempts,
                   taskCompleted, stepCount, pageUrl, stepVars, pc, op>>

\* A handler that flags every recorded request failure as critical.
OnRequestFailedAllCritical ==
    /\ pc \in Awaits /\ eventsLeft > 0
    /\ \E k \in kinds \cap {"NetRefused", "Net", "NetAborted"} :
          /\ errors' = IF k = "NetAborted" THEN errors ELSE Append(errors, k)
          /\ criticalErrorOccurred' = (criticalErrorOccurred \/ k # "NetAborted")
          /\ criticalInLoop' = (criticalInLoop \/ (k # "NetAborted" /\ pc \in LoopAwaits))
    /\ eventsLeft' = eventsLeft - 1
    /\ UNCHANGED <<envVars, genVars, otherVars, proposals, clickReturned, finVars, browser, loopData,
                   stepVars, pc, op, pageErrorOccurred>>

\* page.on('requestfailed', ...): a failure other than ERR_ABORTED is recorded;
\* ERR_CONNECTION_REFUSED and ERR_NAME_NOT_RESOLVED flag a critical error.
OnRequestFailed ==
    /\ pc \in Awaits /\ eventsLeft > 0
    /\ \E k \in kinds \cap {"NetRefused", "Net", "NetAborted"} :
          /\ errors' = IF k = "NetAborted" THEN errors ELSE Append(errors, k)
          /\ criticalErrorOccurred' = (criticalErrorOccurred \/ k = "NetRefused")
          /\ criticalInLoop' = (criticalInLoop \/ (k = "NetRefused" /\ pc \in LoopAwaits))
    /\ eventsLeft' = eventsLeft - 1
    /\ UNCHANGED <<envVars, genVars, otherVars, proposals, clickReturned, finVars, browser, loopData,
                   stepVars, pc, op, pageErrorOccurred>>

\* ------------------------------------------------------------ the run
RunNext ==
    \/ LaunchReturns \/ NewPageReturns \/ GotoReturns
    \/ LoopContinue \/ LoopCritical \/ LoopExit
    \/ ExtractReturns \/ SnapshotReturns \/ LlmReturns
    \/ ActReturns \/ ClickAttemptReturns \/ ClickScrollReturns
    \/ FindAltReturns \/ AltTypeReturns \/ VideoCheckReturns
    \/ FinalReport \/ SumErrorsReturns \/ SumTestReturns
    \/ CloseReturns

Next == RunNext \/ OnConsole \/ OnPageError \/ OnRequestFailed \/ OnEventUnobserved

Spec == Init /\ [][Next]_vars

\* Every browser call and every model call eventually returns or throws.
FairSpec == Init /\ [][Next]_vars /\ WF_vars(RunNext)

\* ---------------------------------------------- generateNextStep on its own
\* The longest reply text, in segments.
MaxSegs == 3

GenProposals == {Proposal("CLICK", "s1", "", "", ""),
                 Proposal("NAVIGATE", "", "http://a", "", "")}
GenSegs == {Seg(t, NoStep) : t \in {"fenceJson", "fence", "comment", "prose", "null"}}
           \cup {J(p) : p \in GenProposals}
GenContents == UNION {[1..n -> GenSegs] : n \in 1..MaxSegs}
GenInputs ==
    {[pageOk |-> ok, reply |-> r] :
        ok \in BOOLEAN,
        r \in {Reply("throws", <<>>), Reply("nochoice", <<>>), Reply("empty", <<>>)}
              \cup {Reply("content", c) : c \in GenContents}}

InitGen ==
    /\ menu = {}
    /\ flaky = FALSE
    /\ kinds = {}
    /\ eventsLeft = 0
    /\ pc = "idle"
    /\ op = "none"
    /\ InitRun
    /\ genIn \in GenInputs
    /\ genOut = GenNone
    /\ OthersIdle

\* Both variants of generateNextStep are applied to the input.
GenApply ==
    /\ pc = "idle"
    /\ genOut = GenNone
    /\ genOut' = [svc |-> generateNextStep(genIn.pageOk, genIn.reply),
                  router |-> generateNextStepRouter(genIn.reply)]
    /\ UNCHANGED <<envVars, otherVars, cbVars, finVars, ghostVars, loopData, stepVars, pc, op,
                   browser, genIn>>

NextGen == GenApply

SpecGen == InitGen /\ [][NextGen]_vars

\* ------------------------------------------ executeWebTask (src/unnamed/part_000)
webMaxSteps == 20
instructionsMaxAttempts == 3
\* The calls of generateNextStep followed in one run.
MaxProposals == 21

\* String.toLowerCase on the texts the proposals carry.
toLowerCase(s) ==
    CASE s = "Task Completed." -> "task completed."
      [] s = "GOAL ACHIEVED" -> "goal achieved"
      [] s = "Working on it" -> "working on it"
      [] s = "NONE" -> "none"
      [] s = "None" -> "none"
      [] s = "CLICKBTN" -> "clickbtn"
      [] s = "NAVIGATEURL" -> "navigateurl"
      [] s = "SCREENSHOT" -> "screenshot"
      [] s = "SUMMARIZE_PAGE" -> "summarize_page"
      [] s = "DANCE" -> "dance"
      [] OTHER -> s

\* String.includes on lower-cased thoughts.
includes(s, phrase) ==
    \/ s = "task completed." /\ phrase = "task completed"
    \/ s = "goal achieved" /\ phrase = "goal achieved"

\* The completion check of lines 122-124.
WebCompletes(p) ==
    \/ includes(toLowerCase(p.thought), "task completed")
    \/ includes(toLowerCase(p.thought), "goal achieved")
    \/ toLowerCase(p.action) = "none"

\* The cases of the switch (lines 132-176).
WebKnownActions == {"CLICKBTN", "TYPETEXT", "WAITLOAD", "NAVIGATEURL", "SCROLL",
                    "HIGHLIGHT", "SCREENSHOT", "SUMMARIZE_PAGE", "EXTRACT_LINKS"}

WebScenario(m, f, c) == [menu |-> m, flaky |-> f, concurrent |-> c]
WebScenarios == {
    WebScenario({WebStep("Working on it", "CLICKBTN", ""),
                 WebStep("Working on it", "NONE", "")}, FALSE, FALSE),
    WebScenario({WebStep("Working on it", "SUMMARIZE_PAGE", ""),
                 WebStep("Task Completed.", "CLICKBTN", ""),
                 WebStep("GOAL ACHIEVED", "EXTRACT_LINKS", "")}, FALSE, FALSE),
    WebScenario({WebStep("Working on it", "DANCE", ""),
                 WebStep("Working on it", "None", "")}, FALSE, FALSE),
    WebScenario({WebStep("Working on it", "NAVIGATEURL", "u1"),
                 WebStep("Working on it", "NAVIGATEURL", ""),
                 WebStep("absent", "NONE", "")}, TRUE, FALSE),
    WebScenario({WebStep("Working on it", "SCREENSHOT", ""),
                 WebStep("Working on it", "NONE", "")}, FALSE, TRUE) }

\* What a model call may give: a JSON text, a text that is not JSON, a
\* response that is not ok, a rejected fetch.
WebReplies == IF webEnv.flaky THEN {"json", "invalid", "notok", "rejected"} ELSE {"json"}

InitWeb ==
    /\ RunIdle
    /\ RtrIdle /\ ClickIdle /\ AltIdle /\ HandlerIdle
    /\ \E sc \in WebScenarios :
          /\ webEnv = [menu |-> sc.menu, flaky |-> sc.flaky]
          /\ web = [r \in Runs |->
                      IF r = "a" \/ sc.concurrent THEN WebRun("launch") ELSE WebRun("idle")]
    /\ screenshotPng = "absent"

WebFrame == UNCHANGED <<runVars, rtrVars, clk, fas, hnd, webEnv>>

\* The function rejects: launch and newPage are outside the try (lines 101-102).
WebRejects(r) ==
    web' = [web EXCEPT ![r] = [@ EXCEPT !.pc = "done", !.outcome = "thrown"]]

\* catch (195-196), the empty finally (197-199: browser.close() is commented
\* out), return (201).
WebCatch(r, rec) ==
    web' = [web EXCEPT ![r] = [rec EXCEPT !.result = @ \cup {"Error"},
                                          !.pc = "done", !.outcome = "returned"]]

\* await puppeteer.launch settles (101).
WebLaunchReturns(r) ==
    /\ web[r].pc = "launch"
    /\ \/ web' = [web EXCEPT ![r] = [@ EXCEPT !.browser = "launched", !.pc = "newPage"]]
       \/ webEnv.flaky /\ WebRejects(r)
    /\ UNCHANGED screenshotPng
    /\ WebFrame

\* await browser.newPage settles (102); generateInstructions makes its first
\* model call (107, 62).
WebNewPageReturns(r) ==
    /\ web[r].pc = "newPage"
    /\ \/ web' = [web EXCEPT ![r] = [@ EXCEPT !.pc = "instructions", !.calls = 1]]
       \/ webEnv.flaky /\ WebRejects(r)
    /\ UNCHANGED screenshotPng
    /\ WebFrame

\* A catch block that does not count the failed attempt.
NextAttemptNotCounted(a) == a

\* attempt++ in the catch block of JSON.parse (90).
NextAttempt(a) == a + 1

\* A model call of generateInstructions settles (57-98); on a parsed reply
\* the initial navigation starts (108-110).
WebInstructionsReturns(r) ==
    /\ web[r].pc = "instructions"
    /\ \E c \in WebReplies :
          LET rec == [web[r] EXCEPT !.content = c]
          IN  CASE c \in {"rejected", "notok"} -> WebCatch(r, rec)
                [] c = "invalid" ->
                     IF NextAttempt(rec.attempt) >= instructionsMaxAttempts
                     THEN WebCatch(r, [rec EXCEPT !.attempt = NextAttempt(@)])
                     ELSE web' = [web EXCEPT ![r] = [rec EXCEPT !.attempt = NextAttempt(@),
                                                                !.calls = @ + 1]]
                [] OTHER ->
                     web' = [web EXCEPT ![r] = [rec EXCEPT !.result = @ \cup {"Initial step"},
                                                           !.pc = "goto"]]
    /\ UNCHANGED screenshotPng
    /\ WebFrame

\* The while condition (118): the next call of generateNextStep (119), or
\* the end of the loop (192-193).
WebLoopTop(r, rec) ==
    IF ~rec.taskCompleted /\ rec.stepCount < webMaxSteps
    THEN /\ rec.proposals < MaxProposals
         /\ web' = [web EXCEPT ![r] = [rec EXCEPT !.pc = "llm", !.proposals = @ + 1]]
    ELSE web' = [web EXCEPT ![r] = [rec EXCEPT !.result = @ \cup {"Final URL"},
                                               !.pc = "finalPause"]]

\* await page.goto(initialStep.param) settles (110-116).
WebGotoReturns(r) ==
    /\ web[r].pc = "goto"
    /\ \/ WebLoopTop(r, [web[r] EXCEPT !.currentUrl = "u0",
                                       !.result = @ \cup {"Navigated to"},
                                       !.taskCompleted = FALSE, !.stepCount = 0])
       \/ webEnv.flaky /\ WebCatch(r, web[r])
    /\ UNCHANGED screenshotPng
    /\ WebFrame

\* The end of an iteration whose switch has run without a call, or whose
\* call has settled: stepCount++ and the 2000 ms timer (188-189).
WebStepDone(r, rec) ==
    web' = [web EXCEPT ![r] = [rec EXCEPT !.stepCount = @ + 1, !.pc = "pause"]]

\* await generateNextStep settles (119, 204-236), then lines 120-179 up to
\* the next await.
WebLlmReturns(r) ==
    /\ web[r].pc = "llm"
    /\ \E c \in WebReplies :
          IF c # "json"
          THEN WebCatch(r, [web[r] EXCEPT !.content = c])           \* 224, 234 throw
          ELSE \E p \in webEnv.menu :
                 LET rec == [web[r] EXCEPT !.content = c, !.nextStep = p,
                                           !.result = @ \cup {"Next step"}]
                 IN  CASE p.thought = "absent" -> WebCatch(r, rec)  \* TypeError at 122
                       [] p.thought # "absent" /\ WebCompletes(p) ->
                            web' = [web EXCEPT ![r] =
                                      [rec EXCEPT !.taskCompleted = TRUE,
                                                  !.result = @ \cup {"Task completed successfully.",
                                                                     "Final URL"},
                                                  !.pc = "finalPause"]]
                       [] p.thought # "absent" /\ ~WebCompletes(p)
                          /\ p.action \notin WebKnownActions ->     \* default: continue
                            WebLoopTop(r, [rec EXCEPT !.result = @ \cup {"Unknown action"}])
                       [] p.thought # "absent" /\ ~WebCompletes(p)
                          /\ p.action = "NAVIGATEURL" /\ p.param = "" ->
                            WebStepDone(r, [rec EXCEPT !.result =
                                                         @ \cup {"Step completed successfully"}])
                       [] OTHER ->
                            web' = [web EXCEPT ![r] = [rec EXCEPT !.pc = "act"]]
    /\ UNCHANGED screenshotPng
    /\ WebFrame

\* The lines a case of the switch appends when its call has resolved.
WebCaseLines(p) ==
    CASE p.action = "NAVIGATEURL" -> {"Navigated to"}
      [] p.action = "SCREENSHOT" -> {"Screenshot saved as screenshot.png"}
      [] p.action = "SUMMARIZE_PAGE" -> {"Page summary"}
      [] p.action = "EXTRACT_LINKS" -> {"Extracted links"}
      [] OTHER -> {}

\* The calls of the step's case settle (132-186).  takeScreenshot writes the
\* page's image to the path 'screenshot.png' (293-295).
WebActReturns(r) ==
    /\ web[r].pc = "act"
    /\ LET p == web[r].nextStep
       IN  \/ /\ WebStepDone(r, [web[r] EXCEPT
                     !.result = @ \cup WebCaseLines(p) \cup {"Step completed successfully"},
                     !.currentUrl = IF p.action = "NAVIGATEURL" THEN p.param ELSE @])
              /\ screenshotPng' = IF p.action = "SCREENSHOT" THEN r ELSE screenshotPng
           \/ /\ webEnv.flaky
              /\ WebStepDone(r, [web[r] EXCEPT !.result = @ \cup {"Error executing step"}])
              /\ UNCHANGED screenshotPng
    /\ WebFrame

\* The 2000 ms timer settles (189); back to the while condition.
WebPauseReturns(r) ==
    /\ web[r].pc = "pause"
    /\ WebLoopTop(r, web[r])
    /\ UNCHANGED screenshotPng
    /\ WebFrame

\* The 4000 ms timer settles (193); finally (197-199) and return (201).
WebFinalPauseReturns(r) ==
    /\ web[r].pc = "finalPause"
    /\ web' = [web EXCEPT ![r] = [@ EXCEPT !.pc = "done", !.outcome = "returned"]]
    /\ UNCHANGED screenshotPng
    /\ WebFrame

NextWeb ==
    \E r \in Runs :
        \/ WebLaunchReturns(r)
        \/ WebNewPageReturns(r)
        \/ WebInstructionsReturns(r)
        \/ WebGotoReturns(r)
        \/ WebLlmReturns(r)
        \/ WebActReturns(r)
        \/ WebPauseReturns(r)
        \/ WebFinalPauseReturns(r)

SpecWeb == InitWeb /\ [][NextWeb]_vars

\* ------------------- runQualityAnalysis of the router (api/routers/qa_analysis.ts)
routerMaxSteps == 10
routerRepetitionCap == 3

\* The statuses the response of the initial navigation may carry.
Statuses == {200, 204, 304, 404, 500}
\* HTTPResponse.ok(): the status is in the range 200-299.
ResponseOk(s) == s >= 200 /\ s <= 299

RtrScenario(m, f, n) == [menu |-> m, flaky |-> f, events |-> n]
RtrScenarios == {
    RtrScenario({Proposal("CLICK", "#video-title", "", "", ""),
                 Proposal("WAIT", "", "", "", "")}, FALSE, 0),
    RtrScenario({Proposal("SUMMARIZE", "", "", "", ""),
                 Proposal("NAVIGATE", "", "about:blank", "", ""),
                 Proposal("DANCE", "", "", "", "")}, FALSE, 1),
    RtrScenario({Proposal("TYPE", "s1", "", "t", ""),
                 Proposal("SCREENSHOT", "", "", "", "")}, TRUE, 0) }

InitRtr ==
    /\ RunIdle
    /\ WebIdle /\ ClickIdle /\ AltIdle /\ HandlerIdle
    /\ \E sc \in RtrScenarios :
          /\ rtrEnv = [menu |-> sc.menu, flaky |-> sc.flaky]
          /\ rtr = RtrRun("launch", sc.events)

RtrFrame == UNCHANGED <<runVars, webVars, clk, fas, hnd, rtrEnv>>

\* A return statement inside the try: the value is kept and finally calls
\* browser.close() (286-288).  The locals the value does not hold are out of
\* scope.
RtrReturn(rec, val) ==
    rtr' = [RtrRun("close", 0) EXCEPT
               !.browser = rec.browser, !.closeCalls = rec.closeCalls + 1,
               !.status = rec.status, !.result = rec.result,
               !.screenshots = rec.screenshots, !.proposals = rec.proposals,
               !.ret = val]

\* catch (283-285): return {result: "An error occurred during the analysis", error}.
RtrCatch(rec) == RtrReturn(rec, "An error occurred during the analysis")

\* const criticalErrors = errors.filter(...) (268-270).
RtrCriticalErrors(errs) == SelectSeq(errs, LAMBDA e : e # "policy")

\* After the loop (263-279).
RtrFinal(rec) ==
    LET r1 == IF rec.taskCompleted THEN rec
              ELSE [rec EXCEPT !.result = @ \cup {"Maximum steps reached"}]
    IN  IF Len(RtrCriticalErrors(r1.errors)) > 0
        THEN rtr' = [r1 EXCEPT !.pc = "sumErrors"]
        ELSE rtr' = [r1 EXCEPT !.result = @ \cup {"No critical errors"}, !.pc = "sumTest"]

\* The while condition and the check at the top of the body (147-153).
RtrLoopTop(rec) ==
    IF ~rec.taskCompleted /\ rec.stepCount < routerMaxSteps
    THEN IF rec.criticalErrorOccurred
         THEN RtrReturn([rec EXCEPT !.result = @ \cup {"Critical error occurred"}],
                        "Critical error")
         ELSE rtr' = [rec EXCEPT !.pc = "extract"]
    ELSE RtrFinal(rec)

\* After the step's try/catch (244-256).
RtrPostStep(rec) ==
    rtr' = [rec EXCEPT !.stepCount = @ + 1,
                       !.pc = IF rec.videoClicked THEN "videoCheck" ELSE "check"]

\* await puppeteer.launch settles (103): outside the try.
RtrLaunchReturns ==
    /\ rtr.pc = "launch"
    /\ \/ rtr' = [rtr EXCEPT !.browser = "launched", !.pc = "newPage"]
       \/ rtrEnv.flaky /\ rtr' = [rtr EXCEPT !.pc = "done", !.outcome = "thrown"]
    /\ RtrFrame

\* await browser.newPage settles (104); the handlers are registered and the
\* initial navigation starts (115-133).
RtrNewPageReturns ==
    /\ rtr.pc = "newPage"
    /\ \/ rtr' = [rtr EXCEPT !.pc = "goto"]
       \/ rtrEnv.flaky /\ rtr' = [rtr EXCEPT !.pc = "done", !.outcome = "thrown"]
    /\ RtrFrame

\* await page.goto(url) settles (133-147).
RtrGotoReturns ==
    /\ rtr.pc = "goto"
    /\ \/ \E s \in Statuses :
             LET rec == [rtr EXCEPT !.status = s]
                 bad == [rec EXCEPT !.result = @ \cup {"Critical error: HTTP status"}]
             IN  IF ~ResponseOk(s)
                 THEN IF s >= 400 THEN RtrReturn(bad, "HTTP status") ELSE RtrLoopTop(bad)
                 ELSE RtrLoopTop(rec)
       \/ rtrEnv.flaky /\ RtrCatch(rtr)
    /\ RtrFrame

\* await extractPageContent settles (153); generateNextStep is called (154).
RtrExtractReturns ==
    /\ rtr.pc = "extract"
    /\ \/ rtr' = [rtr EXCEPT !.pc = "llm", !.proposals = @ + 1]
       \/ rtrEnv.flaky /\ RtrCatch(rtr)
    /\ RtrFrame

\* Whether the case of the proposal's action awaits a call (172-227).
RtrNeedsCall(rec, p) ==
    CASE p.action = "NAVIGATE" -> p.url # "" /\ <<"NAVIGATE", "">> \notin rec.completedActions
      [] p.action \in {"CLICK", "HIGHLIGHT"} -> p.selector # ""
      [] p.action = "TYPE" -> p.selector # "" /\ p.text # ""
      [] p.action \in {"WAIT", "SCREENSHOT", "EXTRACT_LINKS", "SUMMARIZE", "SCROLL"} -> TRUE
      [] OTHER -> FALSE
RtrKnownActions == {"NAVIGATE", "CLICK", "TYPE", "WAIT", "SCREENSHOT", "EXTRACT_LINKS",
                    "SUMMARIZE", "SCROLL", "HIGHLIGHT"}

\* await generateNextStep settles (154-172).
RtrLlmReturns ==
    /\ rtr.pc = "llm"
    /\ \E reply \in Replies(rtrEnv.menu, rtrEnv.flaky) :
          LET p == generateNextStepRouter(reply)
              rec == [rtr EXCEPT !.nextStep = p, !.result = @ \cup {"Step"}]
              k == ActionKey(p)
          IN  CASE p = NullStep ->
                     RtrFinal([rtr EXCEPT !.result = @ \cup {"Failed to generate next step"}])
                [] p # NullStep /\ rec.actionAttempts[k] >= routerRepetitionCap ->
                     RtrLoopTop([rec EXCEPT !.result = @ \cup {"Skipping repeated action"},
                                            !.stepCount = @ + 1])
                [] OTHER ->
                     LET adm == [rec EXCEPT !.actionAttempts[k] = @ + 1]
                     IN  IF RtrNeedsCall(adm, p)
                         THEN rtr' = [adm EXCEPT !.pc = "act"]
                         ELSE RtrPostStep([adm EXCEPT !.result =
                                  @ \cup (IF p.action \in RtrKnownActions THEN {}
                                          ELSE {"Unknown action"})
                                    \cup {"Step completed successfully"}])
    /\ RtrFrame

\* The call of the step's case settles (172-242).
RtrActReturns ==
    /\ rtr.pc = "act"
    /\ LET p == rtr.nextStep
       IN  \/ RtrPostStep([rtr EXCEPT
                  !.completedActions = @ \cup {Descriptor(p)},
                  !.videoClicked = @ \/ (p.action = "CLICK" /\ p.selector \in VideoSelectors),
                  !.screenshots = IF p.action = "SCREENSHOT" THEN @ + 1 ELSE @,
                  !.taskCompleted = @ \/ p.action = "SUMMARIZE",
                  !.result = @ \cup (CASE p.action = "EXTRACT_LINKS" -> {"Links"}
                                       [] p.action = "SUMMARIZE" -> {"Summary"}
                                       [] OTHER -> {})
                               \cup {"Step completed successfully"}])
           \/ /\ rtrEnv.flaky
              /\ LET rec == [rtr EXCEPT !.result = @ \cup {"Error executing step"}]
                 IN  IF p.action \in {"CLICK", "TYPE"}
                     THEN rtr' = [rec EXCEPT !.pc = "findAlt"]
                     ELSE RtrPostStep(rec)
    /\ RtrFrame

\* await findAlternativeSelector settles (232-235).
RtrFindAltReturns ==
    /\ rtr.pc = "findAlt"
    /\ \/ \E present \in PagePresentSets :
             LET sel == findAlternativeSelector(present)
             IN  IF sel = "" THEN RtrPostStep(rtr)
                 ELSE rtr' = [rtr EXCEPT
                         !.result = @ \cup {"Trying alternative selector"},
                         !.alternativeSelector = sel,
                         !.pc = "altAct"]
       \/ RtrCatch(rtr)
    /\ RtrFrame

\* The call with the alternative selector settles (235-240).
RtrAltActReturns ==
    /\ rtr.pc = "altAct"
    /\ \/ RtrPostStep([rtr EXCEPT
              !.result = @ \cup {"Step completed successfully with alternative selector"},
              !.alternativeSelector = "",
              !.videoClicked = @ \/ (rtr.nextStep.action = "CLICK"
                                     /\ rtr.alternativeSelector \in VideoSelectors)])
       \/ RtrCatch(rtr)
    /\ RtrFrame

\* await checkIfVideoPlaying settles (249-256).
RtrVideoCheckReturns ==
    /\ rtr.pc = "videoCheck"
    /\ \/ rtr' = [rtr EXCEPT !.taskCompleted = TRUE,
                             !.result = @ \cup {"Task completed: Video is playing."},
                             !.pc = "check"]
       \/ rtr' = [rtr EXCEPT !.pc = "check"]
       \/ rtrEnv.flaky /\ RtrCatch(rtr)
    /\ RtrFrame

\* await checkTaskCompletion settles (256-261, 401-418): a judgment, the
\* default judgment of its catch block, or the rejection of its model call.
RtrCheckReturns ==
    /\ rtr.pc = "check"
    /\ \/ RtrLoopTop([rtr EXCEPT !.taskCompleted = TRUE,
                                 !.result = @ \cup {"Task completed"}])
       \/ RtrLoopTop(rtr)
       \/ rtrEnv.flaky /\ RtrCatch(rtr)
    /\ RtrFrame

\* await summarizeErrors settles (273-279).
RtrSumErrorsReturns ==
    /\ rtr.pc = "sumErrors"
    /\ \/ rtr' = [rtr EXCEPT !.result = @ \cup {"Important Errors"}, !.pc = "sumTest"]
       \/ rtrEnv.flaky /\ RtrCatch(rtr)
    /\ RtrFrame

\* await summarizeTest settles (279-282).
RtrSumTestReturns ==
    /\ rtr.pc = "sumTest"
    /\ \/ RtrReturn([rtr EXCEPT !.result = @ \cup {"Test Summary"}], "report")
       \/ rtrEnv.flaky /\ RtrCatch(rtr)
    /\ RtrFrame

\* await browser.close() in finally settles (286-288).
RtrCloseReturns ==
    /\ rtr.pc = "close"
    /\ \/ rtr' = [rtr EXCEPT !.browser = "closed", !.outcome = rtr.ret, !.pc = "done"]
       \/ rtrEnv.flaky /\ rtr' = [rtr EXCEPT !.outcome = "thrown", !.pc = "done"]
    /\ RtrFrame

\* The awaits at which the page's callbacks can run.
RtrAwaits == {"goto", "extract", "llm", "act", "findAlt", "altAct", "videoCheck", "check",
              "sumErrors", "sumTest"}

\* page.on('console') (115-119).
RtrOnConsole ==
    /\ rtr.pc \in RtrAwaits
    /\ rtr.eventsLeft > 0
    /\ \E kind \in {"console", "policy", "log"} :
          rtr' = [rtr EXCEPT !.eventsLeft = @ - 1,
                             !.errors = IF kind = "log" THEN @ ELSE Append(@, kind)]
    /\ RtrFrame

\* page.on('requestfailed') (122-130).
RtrOnRequestFailed ==
    /\ rtr.pc \in RtrAwaits
    /\ rtr.eventsLeft > 0
    /\ \E kind \in {"aborted", "network", "refused"} :
          rtr' = [rtr EXCEPT !.eventsLeft = @ - 1,
                             !.errors = IF kind = "aborted" THEN @ ELSE Append(@, kind),
                             !.criticalErrorOccurred = @ \/ kind = "refused"]
    /\ RtrFrame

NextRtr ==
    \/ RtrLaunchReturns \/ RtrNewPageReturns \/ RtrGotoReturns \/ RtrExtractReturns
    \/ RtrLlmReturns \/ RtrActReturns \/ RtrFindAltReturns \/ RtrAltActReturns
    \/ RtrVideoCheckReturns \/ RtrCheckReturns \/ RtrSumErrorsReturns
    \/ RtrSumTestReturns \/ RtrCloseReturns \/ RtrOnConsole \/ RtrOnRequestFailed

SpecRtr == InitRtr /\ [][NextRtr]_vars

\* ----------------------------------------- clickWithRetry, await by await
\* The largest maxAttempts a call is given.
MaxClickAttempts == 5

\* The call: the for loop's condition is evaluated and, if it holds, the
\* first waitForSelector is in flight (101-103); else return false (129).
ClickEnter(m) ==
    IF 0 < m THEN [ClickCall("waitForSelector", m) EXCEPT !.waits = 1]
    ELSE [ClickCall("done", m) EXCEPT !.ret = "false"]

InitClick ==
    /\ RunIdle
    /\ WebIdle /\ RtrIdle /\ AltIdle /\ HandlerIdle
    /\ \E m \in 0..MaxClickAttempts : clk = ClickEnter(m)

ClickFrame == UNCHANGED <<runVars, webVars, rtrVars, fas, hnd>>

\* Variant of ClickCaught: the last resort is tried after every failed attempt.
ClickCaughtScrollsAtOnce(rec) ==
    clk' = [rec EXCEPT !.pc = "scroll", !.scrolls = @ + 1]

\* The catch block of the loop's body (106-126): after the last attempt the
\* scrolling page.evaluate is called, else the 1000 ms timer is started.
ClickCaught(rec) ==
    IF rec.attempt = rec.maxAttempts - 1
    THEN clk' = [rec EXCEPT !.pc = "scroll", !.scrolls = @ + 1]
    ELSE clk' = [rec EXCEPT !.pc = "pause", !.pauses = @ + 1]

\* await page.waitForSelector settles (103-104).
CwrWaitReturns ==
    /\ clk.pc = "waitForSelector"
    /\ \/ clk' = [clk EXCEPT !.pc = "click", !.clicks = @ + 1]
       \/ ClickCaught(clk)
    /\ ClickFrame

\* await page.click settles (104-105).
CwrClickReturns ==
    /\ clk.pc = "click"
    /\ \/ clk' = [clk EXCEPT !.pc = "done", !.succeeded = TRUE, !.ret = "true"]
       \/ ClickCaught(clk)
    /\ ClickFrame

\* The timer of line 126 settles: attempt++, the loop's condition, the next
\* waitForSelector (101-103) or return false (129).
CwrPauseReturns ==
    /\ clk.pc = "pause"
    /\ IF clk.attempt + 1 < clk.maxAttempts
       THEN clk' = [clk EXCEPT !.attempt = @ + 1, !.pc = "waitForSelector", !.waits = @ + 1]
       ELSE clk' = [clk EXCEPT !.attempt = @ + 1, !.pc = "done", !.ret = "false"]
    /\ ClickFrame

\* The scrolling page.evaluate settles (111-117): the timer is started, or
\* (caught at 121) return false.
CwrScrollReturns ==
    /\ clk.pc = "scroll"
    /\ \/ clk' = [clk EXCEPT !.pc = "scrollPause"]
       \/ clk' = [clk EXCEPT !.pc = "done", !.ret = "false"]
    /\ ClickFrame

\* The timer of line 117 settles: page.click is called (118).
CwrScrollPauseReturns ==
    /\ clk.pc = "scrollPause"
    /\ clk' = [clk EXCEPT !.pc = "lastClick", !.lastClicks = @ + 1]
    /\ ClickFrame

\* await page.click after scrolling settles (118-123).
CwrLastClickReturns ==
    /\ clk.pc = "lastClick"
    /\ \/ clk' = [clk EXCEPT !.pc = "done", !.succeeded = TRUE, !.ret = "true"]
       \/ clk' = [clk EXCEPT !.pc = "done", !.ret = "false"]
    /\ ClickFrame

NextClick ==
    \/ CwrWaitReturns \/ CwrClickReturns \/ CwrPauseReturns
    \/ CwrScrollReturns \/ CwrScrollPauseReturns \/ CwrLastClickReturns

\* Every page call and every timer of clickWithRetry eventually settles.
FairSpecClick == InitClick /\ [][NextClick]_vars /\ WF_vars(NextClick)

\* ------------------------------------ findAlternativeSelector, probe by probe
\* The calls made on one page.
MaxAltCalls == 2

\* The pages searched: which of the listed selectors match an element.
AltPages == SUBSET {"#video-title", "a.ytd-video-renderer", "ytd-video-renderer #video-title",
                    "a[href^=\"/watch\"]", "a[title]"}
\* The selectors that failed before the search.
OriginalSelectors == {"s1", "a[title]"}

\* The selector the loop is at in its i-th pass, taken from the end of the list.
AltSelectorFromEnd(i) == alternatives[Len(alternatives) + 1 - i]

\* for (const selector of alternatives): the selector of the i-th pass (218).
AltSelectorAt(i) == alternatives[i]

InitAlt ==
    /\ RunIdle
    /\ WebIdle /\ RtrIdle /\ ClickIdle /\ HandlerIdle
    /\ \E present \in AltPages, o \in OriginalSelectors :
          fas = [AltCall("probe", present, o) EXCEPT !.calls = 1]

AltFrame == UNCHANGED <<runVars, webVars, rtrVars, clk, hnd>>

\* await page.$(selector) settles (219-225): an element (return selector),
\* null (next selector, or return null after the last), or a rejection,
\* which the function does not catch.
FasProbeReturns ==
    /\ fas.pc = "probe"
    /\ \/ IF AltSelectorAt(fas.idx) \in fas.present
          THEN fas' = [fas EXCEPT !.pc = "done", !.ret = AltSelectorAt(fas.idx)]
          ELSE IF fas.idx < Len(alternatives)
               THEN fas' = [fas EXCEPT !.idx = @ + 1]
               ELSE fas' = [fas EXCEPT !.pc = "done", !.ret = ""]
       \/ fas' = [fas EXCEPT !.pc = "done", !.ret = "thrown"]
    /\ AltFrame

\* The function is called again on the same page, for any original selector.
FasCalledAgain ==
    /\ fas.pc = "done"
    /\ fas.calls < MaxAltCalls
    /\ \E o \in OriginalSelectors :
          fas' = [AltCall("probe", fas.present, o) EXCEPT
                     !.calls = fas.calls + 1,
                     !.first = IF fas.calls = 1 THEN fas.ret ELSE fas.first]
    /\ AltFrame

NextAlt == FasProbeReturns \/ FasCalledAgain

SpecAlt == InitAlt /\ [][NextAlt]_vars

\* ===================================================== the HTTP handler
\* handler(req, res) of src/unnamed/part_003, serving one request after the
\* other.  runQualityAnalysis is the services function: the handler sees it
\* return an object or reject.

MaxRequests == 2

Methods == {"POST", "GET", "PUT"}

\* req.body: null (no body, or the JSON text null), or an object whose url
\* and task are absent, empty or filled.
Bodies ==
    {NoBody} \cup {[isNull |-> FALSE, url |-> u, task |-> t] :
                      u \in {"undefined", "", "u0"}, t \in {"undefined", "", "t0"}}

\* !v for a property read from the body.
Falsy(v) == v \in {"undefined", ""}

InitHandler ==
    /\ RunIdle
    /\ WebIdle /\ RtrIdle /\ ClickIdle /\ AltIdle
    /\ \E m \in Methods, b \in Bodies :
          hnd = [HandlerCall("handler", m, b) EXCEPT !.served = 1]

HttpFrame == UNCHANGED <<runVars, webVars, rtrVars, clk, fas>>

\* res.status(code).json(...) or .end(...): one response sent.
Respond(rec, code) ==
    hnd' = [rec EXCEPT !.statusCode = code, !.sent = @ + 1, !.pc = "done"]

\* The handler up to its await (5-11) or to its end (16-18).  Destructuring
\* req.body throws when the body is null; the catch block answers 500.
HandlerEnter ==
    /\ hnd.pc = "handler"
    /\ IF hnd.method = "POST"
       THEN IF hnd.body.isNull
            THEN Respond(hnd, 500)
            ELSE IF Falsy(hnd.body.url) \/ Falsy(hnd.body.task)
                 THEN Respond(hnd, 400)
                 ELSE hnd' = [hnd EXCEPT !.pc = "run", !.runs = @ + 1]
       ELSE Respond([hnd EXCEPT !.allow = TRUE], 405)
    /\ HttpFrame

\* await runQualityAnalysis(url, task) settles (11-14).
HandlerRunSettles ==
    /\ hnd.pc = "run"
    /\ \/ Respond([hnd EXCEPT !.run = "returned"], 200)
       \/ Respond([hnd EXCEPT !.run = "thrown"], 500)
    /\ HttpFrame

\* The next request arrives.
HandlerCalledAgain ==
    /\ hnd.pc = "done"
    /\ hnd.served < MaxRequests
    /\ \E m \in Methods, b \in Bodies :
          hnd' = [HandlerCall("handler", m, b) EXCEPT !.served = hnd.served + 1]
    /\ HttpFrame

NextHandler == HandlerEnter \/ HandlerRunSettles \/ HandlerCalledAgain

SpecHandler == InitHandler /\ [][NextHandler]_vars

\* ================================================================ claims

\* The last entry of the transcript's current chunk is a skip notice.
SkipLogged(res) ==
    Len(res.cur) >= 2 /\ res.cur[Len(res.cur)][1] = "Skipping repeated action"

InIteration == {"snapshot", "llm", "act", "click", "clickScroll", "findAlt", "altType"}

\* C1: stepCount starts at 0, every iteration that does not end the run
\* increases it by exactly 1 (it equals the number of proposals requested
\* whenever an iteration has ended, and is one behind while an iteration is in
\* progress), and 0 <= stepCount <= maxSteps in every reachable state.
C1_StepCounter ==
    /\ stepCount \in 0..maxSteps
    /\ pc \in {"loopTop", "extract", "videoCheck"} => stepCount = proposals
    /\ pc \in InIteration => stepCount = proposals - 1

\* The budget is used up, the last iteration having skipped a repeated proposal.
C1_Witness ==
    pc = "loopTop" /\ stepCount = maxSteps /\ SkipLogged(result)

\* C2: under fair scheduling of the run's own steps (every call eventually
\* returns or throws) every run eventually returns an outcome to its caller,
\* having requested at most maxSteps proposals.
C2_ReturnsOutcome ==
    /\ [](proposals <= maxSteps)
    /\ <>(outcome.kind = "returned")

\* C3: no attempt count exceeds the repetition cap, and a proposal enters the
\* dispatch only while its signature's count is below the cap.
C3_RepetitionCap ==
    /\ [](\A k \in Keys : actionAttempts[k] <= RepetitionCap)
    /\ [][(nextStep = NoStep /\ nextStep' # NoStep)
            => actionAttempts[ActionKey(nextStep')] < RepetitionCap]_vars

\* A signature stands at the cap and its next proposal was skipped.
C3_Witness ==
    /\ pc = "loopTop"
    /\ SkipLogged(result)
    /\ \E k \in Keys :
          /\ actionAttempts[k] = RepetitionCap
          /\ result.cur[Len(result.cur)] = <<"Skipping repeated action", k[1], k[2]>>

\* C4: an iteration that skips a repeated proposal appends the proposal and
\* the skip notice to the transcript and adds 1 to stepCount; the page,
\* completedActions, screenshots, actionAttempts, currentState, taskCompleted
\* (and videoClicked) are unchanged, and no call is started: the run is back
\* at the top of the loop.
C4_SkipFrame ==
    [][(pc \in InIteration /\ result' # result /\ SkipLogged(result'))
        => /\ \E k \in Keys :
                result'.cur = result.cur \o << <<"Step", k[1], k[2]>>,
                                               <<"Skipping repeated action", k[1], k[2]>> >>
           /\ result'.steps = result.steps + 1
           /\ result'.cb = result.cb
           /\ stepCount' = stepCount + 1
           /\ UNCHANGED <<pageUrl, completedActions, screenshots, actionAttempts,
                          currentState, taskCompleted, videoClicked>>
           /\ pc' = "loopTop" /\ op' = "none"]_vars

\* A skip after steps that completed actions and took screenshots.
C4_Witness ==
    /\ pc = "loopTop"
    /\ result.cur = << <<"Step", "SCREENSHOT", "">>,
                       <<"Skipping repeated action", "SCREENSHOT", "">> >>
    /\ screenshots = 3
    /\ completedActions[<<"WAIT", "">>] > 0

\* C5: once criticalErrorOccurred is set, no browser action (navigate, click,
\* type, select, scroll, highlight, screenshot) is started in that run.
C5_NoActionAfterCritical ==
    [][(op' \in BrowserActions /\ (op' # op \/ attempt' # attempt))
        => ~criticalErrorOccurred]_vars

\* C6: a run in which a critical signal arrived while the loop was running
\* (and in which no call failed) returns error = "Critical error", with the
\* session released.
C6_CriticalReported ==
    (pc = "done" /\ criticalInLoop /\ outcome.kind = "returned" /\ outcome.error # "exception")
        => (outcome.error = "Critical error" /\ closeCalls = 1)

\* C7: browser.close() is invoked at most once; on every path on which the
\* browser was launched it has been invoked exactly once when the outcome
\* reaches the caller, and it is never invoked without a browser.
C7_ClosedOnce ==
    /\ closeCalls <= 1
    /\ browser = "undefined" => closeCalls = 0
    /\ (browser = "launched" /\ (pc = "done" \/ outcome.kind # "none")) => closeCalls = 1

\* An exception escaped the loop after a proposal was requested; the caller
\* has the outcome and the session was closed once.
C7_Witness ==
    /\ pc = "done"
    /\ proposals > 0
    /\ outcome.kind = "returned" /\ outcome.error = "exception"
    /\ closeCalls = 1

\* C8: the caller always receives a returned outcome, never an exception.
C8_NeverThrows == outcome.kind # "thrown"

\* C9: when an exception ends the run after steps were recorded, the outcome
\* returned from the catch block holds the step entries of the transcript.
C9_PartialTranscript ==
    [][(ret.kind = "none" /\ ret'.kind = "returned" /\ ret'.error = "exception"
        /\ result.steps > 0)
        => ret'.result.steps = result.steps]_vars

\* No JSON value can be read from the reply by the services variant (after
\* its cleaning) / by the router variant (raw, or from "{" to "}").
Unparseable(reply) ==
    reply.kind = "content" /\ ~ParseOk(cleanedContent(reply.content))
RouterUnparseable(reply) ==
    reply.kind = "content" /\ ~ParseOk(reply.content) /\ ~ParseOk(jsonMatch(reply.content))
\* The reply text holds no JSON value at all.
NoJson(reply) ==
    reply.kind = "content"
    /\ \A i \in 1..Len(reply.content) : reply.content[i].t \notin {"json", "null"}

Admitted == nextStep = NoStep /\ nextStep' # NoStep

\* C11: once 'NAVIGATE' is in completedActions, a NAVIGATE proposal that is
\* dispatched starts no page.goto and leaves the page's URL and
\* completedActions as they are (its iteration ends in that same step); and
\* 'NAVIGATE' is marked at most once per run.
C11_NavigateOnce ==
    /\ [](completedActions[<<"NAVIGATE", "">>] <= 1)
    /\ [][(Admitted /\ nextStep'.action = "NAVIGATE"
           /\ completedActions[<<"NAVIGATE", "">>] > 0)
            => /\ op' # "goto" /\ pc' = "loopTop"
               /\ pageUrl' = pageUrl
               /\ completedActions' = completedActions]_vars

\* A second NAVIGATE proposal (with a URL) went through the dispatch after the
\* first had navigated.
C11_Witness ==
    /\ pc = "loopTop"
    /\ completedActions[<<"NAVIGATE", "">>] = 1
    /\ actionAttempts[<<"NAVIGATE", "">>] >= 2
    /\ currentState.last = "NAVIGATE"
    /\ pageUrl = "about:blank"

\* clickWithRetry, called with the proposal's own selector, returns false:
\* all its attempts and the click after scrolling failed.
ClickGaveUp ==
    pc \in {"click", "clickScroll"} /\ altSel = "" /\ clickReturned' = "false"

\* C12: when every click attempt on a CLICK proposal's selector has failed,
\* the fallback selector list is consulted next.
C12_ClickFallback ==
    [][ClickGaveUp => (pc' = "findAlt" /\ op' = "query")]_vars

\* C13: a CLICK step whose clickWithRetry gave up records no 'Step completed
\* successfully' and adds no 'CLICK_<selector>' to completedActions.
C13_ClickFailureReported ==
    [][ClickGaveUp
        => /\ ~Holds(result', <<"Step completed successfully">>)
           /\ completedActions' = completedActions]_vars

\* The error strings of the non-OK return (line 314).
HttpErrors == {"HTTP status 404", "HTTP status 500", "HTTP status undefined"}

\* C14: a run whose initial navigation got a response that is not ok hands
\* its caller the outcome with error = 'HTTP status s' and no screenshots,
\* having requested no proposal and closed the session.
C14_NonOkStatus ==
    (pc = "done" /\ ret.error \in HttpErrors)
        => /\ outcome = ret
           /\ outcome.screenshots = 0
           /\ proposals = 0
           /\ closeCalls = 1

\* The budget is used up with the task not completed and no critical signal.
BudgetExhausted ==
    /\ pc \in {"afterLoop", "sumErrors", "sumTest"}
    /\ stepCount = maxSteps /\ ~taskCompleted
    /\ ~criticalErrorOccurred /\ ~criticalErrorOccurred'

\* C15: a run that used up its maxSteps iterations without completing and
\* without a critical signal returns an outcome with no error field whose
\* transcript says 'Maximum steps reached without completing the task.'
C15_BudgetNotAnError ==
    [][(BudgetExhausted /\ ret.kind = "none" /\ ret'.kind # "none")
        => /\ ret'.error = ""
           /\ Holds(ret'.result, <<"Maximum steps reached without completing the task.">>)]_vars

\* C16: the step of an admitted SUMMARIZE proposal ends with taskCompleted
\* true, whether summarizePage resolved or rejected.
C16_SummarizeCompletes ==
    [][(pc = "act" /\ nextStep.action = "SUMMARIZE" /\ pc' # "act") => taskCompleted']_vars

\* C17: a dispatched proposal whose action is NONE or not one of the known
\* kinds starts no browser action, is recorded in the transcript, and
\* completes the task (the loop stops after it).
C17_UnknownCompletes ==
    [][(Admitted /\ nextStep'.action \notin KnownActions)
        => /\ op' \notin BrowserActions
           /\ Holds(result', <<"Unknown action", nextStep'.action>>)
           /\ taskCompleted']_vars

\* C18: while a step's operation is awaited (the case's own call, or the call
\* on a fallback selector) and no critical error is flagged, whatever that
\* operation does, the run does not end there: nothing is returned.
C18_StepFailureLocal ==
    [][(pc \in {"act", "click", "clickScroll", "altType"}
        /\ ~criticalErrorOccurred /\ ret.kind = "none")
        => ret'.kind = "none"]_vars

\* The events that flag a critical error: a page exception naming React (or
\* 'must be used within'), a request refused or unresolved.
CriticalKinds == {"PageReact", "NetRefused"}
CriticalSeen == \E i \in 1..Len(errors) : errors[i] \in CriticalKinds

\* A page event is delivered to its handler, and it is not a critical one.
NonCriticalEvent ==
    /\ pc' = pc /\ eventsLeft' = eventsLeft - 1
    /\ errors' = errors \/ errors'[Len(errors')] \notin CriticalKinds

\* What no handler touches.
HandlerFrame ==
    UNCHANGED <<pc, op, browser, closeCalls, ret, outcome, pageUrl, currentState,
                screenshots, completedActions, videoClicked, actionAttempts,
                taskCompleted, stepCount, nextStep, attempt, altSel, proposals>>

\* C19 (as the code has it): criticalErrorOccurred is set, and 'Critical
\* error' returned, only in runs in which a critical event was recorded.  A
\* non-critical event leaves criticalErrorOccurred and the run's control state
\* alone; it is appended to errors (an aborted request and a console message
\* that is neither error nor warning are dropped), and a page exception is
\* also written to the transcript as 'Page Error' and sets pageErrorOccurred.
C19_NonCriticalNeverFatal ==
    /\ [](criticalErrorOccurred => CriticalSeen)
    /\ [][(ret.kind = "none" /\ ret'.error = "Critical error") => CriticalSeen]_vars
    /\ [][NonCriticalEvent
            => /\ HandlerFrame
               /\ criticalErrorOccurred' = criticalErrorOccurred
               /\ errors' = errors \/ \E k \in kinds : errors' = Append(errors, k)
               /\ \/ UNCHANGED <<result, pageErrorOccurred>>
                  \/ /\ result' = LogCallback(result, <<"Page Error">>)
                     /\ pageErrorOccurred'
                     /\ errors' = Append(errors, "Page")]_vars

\* Non-critical events (a page exception and a failed request) were recorded
\* and the loop went on to its next iteration.
C19_Witness ==
    /\ pc = "loopTop" /\ stepCount >= 1 /\ ~taskCompleted
    /\ errors = <<"Page", "Net">>
    /\ pageErrorOccurred /\ ~criticalErrorOccurred

\* C19 (as stated): non-critical events never make a run critical and are
\* only accumulated in the errors list: a handler that receives one changes
\* nothing but errors.
C19_OnlyErrorsList ==
    /\ [](criticalErrorOccurred => CriticalSeen)
    /\ [][(ret.kind = "none" /\ ret'.error = "Critical error") => CriticalSeen]_vars
    /\ [][NonCriticalEvent
            => /\ HandlerFrame
               /\ UNCHANGED <<criticalErrorOccurred, result, pageErrorOccurred>>]_vars

\* The calls a step makes on the page (the fallback search included).
StepOps == BrowserActions \cup {"wait", "extractLinks", "summarize", "query"}

\* C20: the page is read for the model (extractPageContent, then the
\* snapshot inside generateNextStep) only when no call of the previous step
\* is in flight, and before the iteration's proposal is dispatched; a step's
\* call is in flight only inside the iteration whose snapshot was read last.
C20_PerceptionOrdered ==
    /\ [](pc \in {"extract", "snapshot", "llm"}
            => (op \in {"evaluate", "llm"} /\ nextStep = NoStep))
    /\ []((op \in StepOps /\ pc # "goto")         \* "goto": the initial navigation
            => /\ pc \in {"act", "click", "clickScroll", "findAlt", "altType"}
               /\ nextStep # NoStep
               /\ stepCount = proposals - 1)
    /\ [][(pc = "loopTop" /\ pc' = "extract") => op = "none"]_vars

\* The snapshot of the second iteration is being read after a click that
\* needed its retries.
C20_Witness ==
    /\ pc = "snapshot" /\ op = "evaluate"
    /\ proposals = 2 /\ stepCount = 1
    /\ clickReturned = "none"
    /\ completedActions[<<"CLICK", "s1">>] = 1

\* The primary target of a proposal: its url for NAVIGATE, else its selector.
PrimaryTarget(p) == IF p.action = "NAVIGATE" THEN p.url ELSE p.selector

\* C21: proposals of the same kind with different primary targets (both
\* given) are counted separately: admitting one of them leaves the attempt
\* count of the other's signature as it is.
C21_SignatureHasTarget ==
    [][(Admitted /\ PrimaryTarget(nextStep') # "")
        => \A q \in menu :
              (q.action = nextStep'.action /\ PrimaryTarget(q) # ""
               /\ PrimaryTarget(q) # PrimaryTarget(nextStep'))
                => actionAttempts'[ActionKey(q)] = actionAttempts[ActionKey(q)]]_vars

\* C28: when the call of a SELECT step (waitForSelector, page.select) fails,
\* the step goes on to set the element's value directly.
C28_SelectFallback ==
    [][(pc = "act" /\ nextStep.action = "SELECT" /\ pc' # "act"
        /\ Holds(result', <<"Error executing step">>))
        => op' = "setValue"]_vars

\* A call of generateNextStep by run r of executeWebTask settles in this step.
WebReplied(r) == web[r].pc = "llm" /\ web'[r] # web[r]

\* C22: in executeWebTask the loop requests at most maxSteps (20) next-step
\* proposals, whatever the proposals are, those with an unrecognized action
\* kind included.
C22_AtMostMaxStepsProposals == \A r \in Runs : web[r].proposals <= webMaxSteps

\* C23: in executeWebTask a next-step reply that is not valid JSON does not
\* end the run: the loop receives a proposal and goes on with it.
C23_InvalidReplyGivesDefault ==
    [][\A r \in Runs :
          (WebReplied(r) /\ web'[r].content = "invalid")
            => (web'[r].pc # "done" /\ web'[r].nextStep # WebNoStep)]_vars

\* C24: executeWebTask has released its browser session when it returns its
\* outcome.
C24_ReleasedOnReturn ==
    \A r \in Runs : web[r].outcome = "returned" => web[r].browser = "closed"

\* C25: in executeWebTask a proposal (with a thought) whose thought holds a
\* completion phrase, or whose action kind is NONE or SUMMARIZE_PAGE, ends the
\* run as completed: 'Task completed successfully.' is recorded and no
\* further proposal is requested.
C25_ExplicitCompletion ==
    [][\A r \in Runs :
          (WebReplied(r) /\ web'[r].content = "json" /\ web'[r].nextStep.thought # "absent"
           /\ (WebCompletes(web'[r].nextStep) \/ web'[r].nextStep.action = "SUMMARIZE_PAGE"))
            => (/\ web'[r].taskCompleted
                /\ "Task completed successfully." \in web'[r].result
                /\ web'[r].pc \in {"finalPause", "done"}
                /\ web'[r].proposals = web[r].proposals)]_vars

\* C26: concurrent runs of executeWebTask do not interfere: the screenshot a
\* run has captured is not overwritten by a SCREENSHOT step of another run.
C26_ScreenshotNotOverwritten ==
    \A r \in Runs :
        "Screenshot saved as screenshot.png" \in web[r].result => screenshotPng = r

\* C27: in the router's runQualityAnalysis a non-2xx status of the initial
\* navigation ends the run with no steps taken: no proposal is requested.
C27_NonOkStatusNoSteps ==
    (rtr.status # 0 /\ ~ResponseOk(rtr.status)) => rtr.proposals = 0

\* C29: clickWithRetry never throws and always terminates: at most
\* maxAttempts wait-and-click attempts with a pause between them; after the
\* last failed attempt one scroll-into-view and, if the scroll call
\* resolves, one more click (none if it rejects); it returns true iff a
\* click succeeded, false otherwise, and clicks no more after a success.
C29_ClickWithRetry ==
    /\ [](/\ clk.ret \in {"none", "true", "false"}
          /\ clk.waits <= clk.maxAttempts
          /\ clk.clicks <= clk.waits
          /\ clk.pauses <= clk.attempt + 1
          /\ (clk.pc \in {"waitForSelector", "click"} => clk.pauses = clk.attempt)
          /\ clk.scrolls <= 1
          /\ (clk.scrolls = 1 => clk.waits = clk.maxAttempts)
          /\ clk.lastClicks <= clk.scrolls
          /\ (clk.succeeded => clk.pc = "done")
          /\ (clk.pc = "done" => (clk.ret = "true" <=> clk.succeeded))
          /\ ((clk.pc = "done" /\ clk.ret = "false" /\ clk.maxAttempts > 0)
                => clk.scrolls = 1))
    /\ <>(clk.pc = "done")

\* C29, case: the click succeeds only after scrolling, in a call with the
\* default maxAttempts.
C29_Witness ==
    /\ clk.pc = "done" /\ clk.ret = "true"
    /\ clk.maxAttempts = maxAttempts /\ clk.waits = maxAttempts
    /\ clk.scrolls = 1 /\ clk.lastClicks = 1

\* C29 as stated: a call whose attempts have all failed has made exactly one
\* scroll-into-view and exactly one more click.
C29_ExactlyOneMoreClick ==
    (clk.pc = "done" /\ clk.ret = "false" /\ clk.waits > 0)
        => (clk.scrolls = 1 /\ clk.lastClicks = 1)

\* A call of findAlternativeSelector has returned v (not thrown).
FasReturned(v) == v \notin {"pending", "thrown"}

\* C30: findAlternativeSelector returns the first selector of the fixed list
\* that the page matches, and null when it matches none; a later call on the
\* same page returns the same, whatever the original selector.
C30_FirstMatch ==
    /\ (fas.pc = "done" /\ FasReturned(fas.ret))
         => \/ /\ fas.ret = ""
               /\ \A i \in 1..Len(alternatives) : alternatives[i] \notin fas.present
            \/ \E i \in 1..Len(alternatives) :
                 /\ fas.ret = alternatives[i]
                 /\ alternatives[i] \in fas.present
                 /\ \A j \in 1..(i - 1) : alternatives[j] \notin fas.present
    /\ (fas.pc = "done" /\ FasReturned(fas.ret) /\ FasReturned(fas.first))
         => fas.ret = fas.first

\* C30, case: the page matches two listed selectors, the original selector is
\* one of them (the later one), and two calls have returned the earlier one.
C30_Witness ==
    /\ fas.pc = "done" /\ fas.calls = 2
    /\ fas.present = {"a.ytd-video-renderer", "a[title]"}
    /\ fas.originalSelector = "a[title]"
    /\ fas.first = "a.ytd-video-renderer" /\ fas.ret = "a.ytd-video-renderer"

\* C31: in the router's runQualityAnalysis no outcome of the completion check
\* (a judgment, an unparseable reply, a failed model call) aborts the run:
\* when the check settles the run does not return its error outcome.
C31_CheckNeverAborts ==
    [][rtr.pc = "check" => rtr'.ret # "An error occurred during the analysis"]_vars

\* C32: the reply cleaning of generateNextStep (services) preserves a reply
\* that is already one valid JSON proposal object: the proposal returned is
\* the proposal of the reply.
C32_CleaningPreserves ==
    (/\ genOut # GenNone
     /\ genIn.pageOk
     /\ genIn.reply.kind = "content"
     /\ Len(genIn.reply.content) = 1
     /\ genIn.reply.content[1].t = "json")
        => genOut.svc = genIn.reply.content[1].p

\* C33: the observers are attached only after the initial navigation, so at
\* the check that follows their attachment pageErrorOccurred is false, and no
\* run returns the error 'Page error occurred'.
C33_PageErrorCheckDead ==
    /\ (pc \in {"launch", "newPage", "goto"} => ~pageErrorOccurred)
    /\ ret.error # "Page error occurred"
    /\ outcome.error # "Page error occurred"

\* C33, case: page events (exceptions among them) occurred during the initial
\* load, nothing was recorded, and the run has passed the check into the loop.
C33_Witness ==
    /\ pc = "loopTop" /\ proposals = 0
    /\ "PageReact" \in kinds /\ eventsLeft < MaxEvents
    /\ errors = <<>> /\ ~pageErrorOccurred /\ ~criticalErrorOccurred

\* C34: the transcript holds 'Maximum steps reached without completing the
\* task.' only if stepCount equals maxSteps when the loop has ended.
C34_MaxStepsOnlyAtBudget ==
    (pc \in {"sumErrors", "sumTest"}
     /\ Holds(result, <<"Maximum steps reached without completing the task.">>))
        => stepCount = maxSteps

\* C35: the proposals of one kind that carry no selector share one signature
\* and are dispatched at most 3 times per run; while no SCREENSHOT proposal
\* carries a selector the screenshots list holds at most 3 artifacts.
C35_SelectorlessKindsCapped ==
    /\ \A k \in Keys : actionAttempts[k] <= RepetitionCap
    /\ \A p \in menu : p.selector = "" => ActionKey(p) = <<p.action, "">>
    /\ (\A p \in menu : p.action = "SCREENSHOT" => p.selector = "")
          => screenshots <= RepetitionCap

\* C35, case: three SCREENSHOT proposals without selector were dispatched and
\* captured, and a fourth is skipped.
C35_Witness ==
    /\ screenshots = RepetitionCap
    /\ actionAttempts[<<"SCREENSHOT", "">>] = RepetitionCap
    /\ \A p \in menu : p.action = "SCREENSHOT" => p.selector = ""
    /\ pc = "loopTop"
    /\ SkipLogged(result)
    /\ result.cur[Len(result.cur)] = <<"Skipping repeated action", "SCREENSHOT", "">>

\* C35 as stated: the screenshots list never holds more than 3 artifacts.
C35_AtMostThreeScreenshots == screenshots <= RepetitionCap

\* C36: each admitted proposal adds 1 to the attempt count of its own
\* signature and leaves every other count as it is, and no other step of the
\* run (a call settling, a failure, a fallback, a skip, a callback) changes a
\* count, until the run returns and its locals go out of scope.
C36_AttemptCounts ==
    [][IF Admitted
       THEN actionAttempts' = [k \in Keys |->
                                 IF k = ActionKey(nextStep') THEN actionAttempts[k] + 1
                                 ELSE actionAttempts[k]]
       ELSE actionAttempts' = actionAttempts \/ ret' # ret]_vars

\* C36, case: a signature admitted twice, the second step failed and is being
\* completed through a fallback selector.
C36_Witness ==
    /\ pc = "altType" /\ altSel # ""
    /\ actionAttempts[<<"TYPE", "s1">>] = 2
    /\ nextStep.action = "TYPE"

\* The entries the pageerror callback recorded in `errors` (lines 342).
PageErrorsRecorded(es) ==
    Cardinality({i \in DOMAIN es : es[i] \in {"PageReact", "Page"}})

IsPrefix(s, t) == Len(s) <= Len(t) /\ \A i \in 1..Len(s) : s[i] = t[i]

\* C37: no append of the loop loses or overwrites an entry of the pageerror
\* callback, and no callback loses an entry of the loop: while the run has
\* not returned every step only extends the transcript, in order (at the end
\* of an iteration the entries in progress are folded into the counts); the
\* transcript holds one entry per pageerror the callback recorded; and a
\* return of the accumulated transcript returns all of it.
C37_TranscriptKeepsCallbackEntries ==
    [][/\ ret' = ret =>
            /\ result'.steps >= result.steps
            /\ result'.cb >= result.cb
            /\ \/ IsPrefix(result.cur, result'.cur)
               \/ /\ result'.cur = <<>>
                  /\ result'.steps = result.steps /\ result'.cb = result.cb
            /\ result'.cb = PageErrorsRecorded(errors')
       /\ (ret' # ret /\ ret'.error \in {"", "Critical error", "Page error occurred"}) =>
            /\ ret'.result.steps = result.steps
            /\ ret'.result.cb = result.cb
            /\ ret'.result.cb = PageErrorsRecorded(errors)
            /\ IsPrefix(result.cur, ret'.result.cur)]_vars

\* C37, case: a pageerror entry written during an await of the loop, after
\* entries of the loop and before the loop's next append, is in the
\* transcript the run returns.
C37_Witness ==
    /\ ret.kind = "returned" /\ ret.error = ""
    /\ ret.result.cb >= 1 /\ ret.result.steps >= 1
    /\ Holds(ret.result, <<"Test Summary">>)

\* C38: generateInstructions makes at most 3 model calls; every call but the
\* last one made had an unparseable reply, so the reply it returns is the
\* first that parses; after the third unparseable reply it throws, and
\* executeWebTask logs 'Error: ...' and returns with no navigation, no
\* next-step proposal and no step executed.
C38_AtMostThreeInstructionCalls ==
    \A r \in Runs :
       /\ web[r].calls <= instructionsMaxAttempts
       /\ web[r].attempt <= instructionsMaxAttempts
       /\ web[r].calls >= 1 =>
             web[r].calls = IF web[r].attempt = instructionsMaxAttempts
                            THEN web[r].attempt ELSE web[r].attempt + 1
       /\ web[r].attempt = instructionsMaxAttempts =>
             /\ web[r].pc = "done" /\ web[r].outcome = "returned"
             /\ web[r].result = {"Error"}
             /\ web[r].proposals = 0 /\ web[r].stepCount = 0
             /\ web[r].currentUrl = "" /\ web[r].nextStep = WebNoStep

\* C38, case: three unparseable replies in a row.
C38_Witness ==
    \E r \in Runs :
       /\ web[r].attempt = instructionsMaxAttempts /\ web[r].calls = instructionsMaxAttempts
       /\ web[r].content = "invalid" /\ web[r].pc = "done"
       /\ "Error" \in web[r].result

\* C39: the handler starts a run only for a POST whose body has both url and
\* task; a request that is not a POST gets 405 with Allow: POST, a POST
\* without url or task gets 400, in both cases no run is started, and every
\* request served has received exactly one response.
C39_HandlerResponses ==
    /\ hnd.sent <= 1
    /\ hnd.runs >= 1 =>
          /\ hnd.method = "POST"
          /\ ~hnd.body.isNull /\ ~Falsy(hnd.body.url) /\ ~Falsy(hnd.body.task)
    /\ hnd.pc = "done" =>
          /\ hnd.sent = 1
          /\ hnd.method # "POST" =>
                hnd.statusCode = 405 /\ hnd.allow /\ hnd.runs = 0
          /\ (hnd.method = "POST"
                /\ (hnd.body.isNull \/ Falsy(hnd.body.url) \/ Falsy(hnd.body.task))) =>
                hnd.statusCode = 400 /\ hnd.runs = 0

====
